---------------------------- MODULE Spec2Model ----------------------------
(***************************************************************************)
(* A model of the front end of the-ceiling: the StringScanner, the Lexer   *)
(* (a generator of tokens), the LineCol offset mapping and the error-      *)
(* tolerant recursive-descent Parser of src/src/syntax.ts and              *)
(* src/src/diagnostics.ts.                                                 *)
(*                                                                         *)
(* A source text is a sequence of one-character strings; offsets are the   *)
(* 0-based offsets of the code (index p of the code is element p + 1 of    *)
(* the sequence).  An exception is a non-empty `threw' field: the          *)
(* operation that raised it and every caller up the stack stop there.      *)
(***************************************************************************)
EXTENDS Integers, Sequences, FiniteSets, TLC

VARIABLES
  src,      \* the source text handed to the Lexer and to Diagnostics
  lexer,    \* the Lexer object and the position of its generator run()
  out,      \* the tokens a direct consumer has pulled from run() so far
  status,   \* the direct consumer: "running", "done" or "threw"
  parser,   \* the Parser object (ParserBase fields)
  decl,     \* the value returned by parseDeclaration
  pc,       \* the parse driver: "start", "constructed", "returned", "threw", "off"
  diagnostics,  \* the Diagnostics object (LineCol fields)
  scanner,  \* the IslandScanner object
  result    \* what the last call of lookup, formatDiagnostic or scan gave, or the
            \* range a Lexer over a part of the source was constructed with

vars == <<src, lexer, out, status, parser, decl, pc, diagnostics, scanner, result>>

----------------------------------------------------------------------------
(* Characters *)

Undefined == "<undefined>"      \* src[p] for p outside the string
NoThrow == ""                   \* no exception raised

Digits == {"0", "1", "2", "3", "4", "5", "6", "7", "8", "9"}
HexDigitChars == Digits \cup {"a", "b", "c", "d", "e", "f", "A", "B", "C", "D", "E", "F"}
WhitespaceChars == {" ", "\t", "\r", "\n"}

\* this.src[this.p]: undefined outside the string
char(s, p) == IF p >= 0 /\ p < Len(s) THEN s[p + 1] ELSE Undefined

\* String.prototype.slice(start, end) for 0 <= start: both ends are clamped
slice(s, start, end) ==
  LET e == IF end > Len(s) THEN Len(s) ELSE end
  IN IF start >= e THEN <<>> ELSE SubSeq(s, start + 1, e)

\* the value of one hexadecimal digit
HexDigitValue(c) ==
  CASE c = "0" -> 0 [] c = "1" -> 1 [] c = "2" -> 2 [] c = "3" -> 3 [] c = "4" -> 4
    [] c = "5" -> 5 [] c = "6" -> 6 [] c = "7" -> 7 [] c = "8" -> 8 [] c = "9" -> 9
    [] c \in {"a", "A"} -> 10 [] c \in {"b", "B"} -> 11 [] c \in {"c", "C"} -> 12
    [] c \in {"d", "D"} -> 13 [] c \in {"e", "E"} -> 14 [] c \in {"f", "F"} -> 15

\* parseInt(hex, 16) of a sequence of hex digits (NaN, here -1, for the empty one)
RECURSIVE parseIntHex(_)
parseIntHex(hex) ==
  IF hex = <<>> THEN -1
  ELSE IF Len(hex) = 1 THEN HexDigitValue(hex[1])
  ELSE 16 * parseIntHex(SubSeq(hex, 1, Len(hex) - 1)) + HexDigitValue(hex[Len(hex)])

\* String.fromCharCode / String.fromCodePoint: the character of a code, named
\* for the codes of the characters the sources use and by its number otherwise
CodeChar(n) ==
  CASE n = 10 -> "\n" [] n = 13 -> "\r" [] n = 9 -> "\t" [] n = 32 -> " "
    [] n = 39 -> "'" [] n = 65 -> "A" [] n = 97 -> "a" [] n = 98 -> "b"
    [] OTHER -> "U+" \o ToString(n)

----------------------------------------------------------------------------
(* StringScanner *)

RECURSIVE readHexDigits(_, _, _)
readHexDigits(s, p, n) ==
  IF n = 0 THEN [threw |-> NoThrow, result |-> <<>>, p |-> p]
  ELSE LET ch == char(s, p) IN
    IF ch = Undefined \/ ch \notin HexDigitChars
    THEN [threw |-> "invalid hex escape", result |-> <<>>, p |-> p]
    ELSE LET rest == readHexDigits(s, p + 1, n - 1)
         IN [rest EXCEPT !.result = <<ch>> \o @]

\* the while (true) loop of readUnicodeEscape, after "\u{"
RECURSIVE readBracedHex(_, _, _)
readBracedHex(s, p, hex) ==
  LET ch == char(s, p) IN
  IF ch = Undefined THEN [threw |-> "unterminated unicode escape", result |-> hex, p |-> p]
  ELSE IF ch = "}" THEN [threw |-> NoThrow, result |-> hex, p |-> p + 1]
  ELSE IF ch \notin HexDigitChars THEN [threw |-> "invalid unicode", result |-> hex, p |-> p]
  ELSE readBracedHex(s, p + 1, Append(hex, ch))

\* p is at the 'u'
readUnicodeEscape(s, p) ==
  LET \* String.fromCodePoint raises a RangeError for NaN and beyond 0x10FFFF
      fromCodePoint(cp, q) ==
        IF cp < 0 \/ cp > 1114111
        THEN [threw |-> "RangeError: invalid code point", ch |-> "", p |-> q]
        ELSE [threw |-> NoThrow, ch |-> CodeChar(cp), p |-> q]
      braced(r) ==
        IF r.threw # NoThrow THEN [threw |-> r.threw, ch |-> "", p |-> r.p]
        ELSE fromCodePoint(parseIntHex(r.result), r.p)
      four(r) ==
        IF r.threw # NoThrow THEN [threw |-> r.threw, ch |-> "", p |-> r.p]
        ELSE [threw |-> NoThrow, ch |-> CodeChar(parseIntHex(r.result)), p |-> r.p]
  IN IF char(s, p + 1) = "{"
     THEN braced(readBracedHex(s, p + 2, <<>>))
     ELSE four(readHexDigits(s, p + 1, 4))

\* p is at the 'x'
readHexEscape(s, p) ==
  LET two(r) ==
        IF r.threw # NoThrow THEN [threw |-> r.threw, ch |-> "", p |-> r.p]
        ELSE [threw |-> NoThrow, ch |-> CodeChar(parseIntHex(r.result)), p |-> r.p]
  IN two(readHexDigits(s, p + 1, 2))

\* one iteration of the while (true) loop of scanString at a character that is
\* neither the end of input nor the closing quote: the character appended to
\* value and the position after it, or the exception
scanStringChar(s, p) ==
  LET ch == char(s, p)
      esc == char(s, p + 1)
      one(c, n) == [threw |-> NoThrow, ch |-> c, p |-> p + n]
  IN IF ch # "\\" THEN one(ch, 1)
     ELSE IF esc = Undefined THEN [threw |-> "bad escape at <eof>", ch |-> "", p |-> p + 1]
     ELSE CASE esc = "n" -> one("\n", 2)
            [] esc = "r" -> one("\r", 2)
            [] esc = "t" -> one("\t", 2)
            [] esc = "\\" -> one("\\", 2)
            [] esc = "\"" -> one("\"", 2)
            [] esc = "'" -> one("'", 2)
            [] esc = "u" -> readUnicodeEscape(s, p + 1)
            [] esc = "x" -> readHexEscape(s, p + 1)
            [] OTHER -> one(esc, 2)

\* a loop that either quote character ends
RECURSIVE scanStringLoopAnyQuote(_, _, _, _)
scanStringLoopAnyQuote(s, p, quote, value) ==
  LET ch == char(s, p)
      append(r) ==
        IF r.threw # NoThrow THEN [threw |-> r.threw, value |-> value, p |-> r.p]
        ELSE scanStringLoopAnyQuote(s, r.p, quote, Append(value, r.ch))
  IN IF ch = Undefined THEN [threw |-> "unterminated string literal", value |-> value, p |-> p]
     ELSE IF ch \in {"'", "\""} THEN [threw |-> NoThrow, value |-> value, p |-> p + 1]
     ELSE append(scanStringChar(s, p))

\* the while (true) loop of scanString, after the opening quote
RECURSIVE scanStringLoop(_, _, _, _)
scanStringLoop(s, p, quote, value) ==
  LET ch == char(s, p)
      append(r) ==
        IF r.threw # NoThrow THEN [threw |-> r.threw, value |-> value, p |-> r.p]
        ELSE scanStringLoop(s, r.p, quote, Append(value, r.ch))
  IN IF ch = Undefined THEN [threw |-> "unterminated string literal", value |-> value, p |-> p]
     ELSE IF ch = quote THEN [threw |-> NoThrow, value |-> value, p |-> p + 1]
     ELSE append(scanStringChar(s, p))

scanString(s, p) ==
  LET quote == char(s, p) IN
  IF quote # "\"" /\ quote # "'"
  THEN [threw |-> "expected string literal", value |-> <<>>, p |-> p]
  ELSE scanStringLoop(s, p + 1, quote, <<>>)

----------------------------------------------------------------------------
(* Number(content): the host's string-to-number coercion                   *)
(* (StringNumericLiteral of ECMA-262).  A finite value is m * 10^e with m  *)
(* not divisible by 10 (m = e = 0 for zero); the rounding to a double is   *)
(* not modelled.                                                           *)

NaNValue == [special |-> "NaN", m |-> 0, e |-> 0]
InfinityValue(neg) == [special |-> IF neg THEN "-Infinity" ELSE "Infinity", m |-> 0, e |-> 0]

RECURSIVE Normalise(_, _)
Normalise(m, e) ==
  IF m = 0 THEN [special |-> "", m |-> 0, e |-> 0]
  ELSE IF m % 10 = 0 THEN Normalise(m \div 10, e + 1)
  ELSE [special |-> "", m |-> m, e |-> e]

RECURSIVE TrimLeft(_)
TrimLeft(s) == IF s # <<>> /\ s[1] \in WhitespaceChars THEN TrimLeft(Tail(s)) ELSE s
RECURSIVE TrimRight(_)
TrimRight(s) ==
  IF s # <<>> /\ s[Len(s)] \in WhitespaceChars THEN TrimRight(SubSeq(s, 1, Len(s) - 1)) ELSE s

\* the value of a sequence of digits of the given base
RECURSIVE DigitsValue(_, _)
DigitsValue(ds, base) ==
  IF ds = <<>> THEN 0
  ELSE base * DigitsValue(SubSeq(ds, 1, Len(ds) - 1), base) + HexDigitValue(ds[Len(ds)])

AllIn(s, set) == \A i \in 1..Len(s) : s[i] \in set

\* StrUnsignedDecimalLiteral without Infinity: a scan by the states "start",
\* "int" (digits), "dot" (digits then '.'), "ldot" (a leading '.'), "frac",
\* "e", "esign", "exp" and "bad"; the accumulators are the mantissa m, the
\* number of fraction digits and the exponent
DecimalStep(a, c) ==
  CASE a.st \in {"start", "int"} /\ c \in Digits -> [a EXCEPT !.st = "int", !.m = 10 * @ + HexDigitValue(c)]
    [] a.st = "start" /\ c = "." -> [a EXCEPT !.st = "ldot"]
    [] a.st = "int" /\ c = "." -> [a EXCEPT !.st = "dot"]
    [] a.st \in {"dot", "ldot", "frac"} /\ c \in Digits ->
         [a EXCEPT !.st = "frac", !.m = 10 * @ + HexDigitValue(c), !.nfrac = @ + 1]
    [] a.st \in {"int", "dot", "frac"} /\ c \in {"e", "E"} -> [a EXCEPT !.st = "e"]
    [] a.st = "e" /\ c \in {"+", "-"} -> [a EXCEPT !.st = "esign", !.eneg = (c = "-")]
    [] a.st \in {"e", "esign", "exp"} /\ c \in Digits ->
         [a EXCEPT !.st = "exp", !.ex = 10 * @ + HexDigitValue(c)]
    [] OTHER -> [a EXCEPT !.st = "bad"]

RECURSIVE DecimalScan(_, _, _)
DecimalScan(s, i, a) ==
  IF i > Len(s)
  THEN IF a.st \in {"int", "dot", "frac"} THEN Normalise(a.m, 0 - a.nfrac)
       ELSE IF a.st = "exp" THEN Normalise(a.m, (IF a.eneg THEN 0 - a.ex ELSE a.ex) - a.nfrac)
       ELSE NaNValue
  ELSE DecimalScan(s, i + 1, DecimalStep(a, s[i]))

Negate(v) ==
  IF v.special = "NaN" THEN v
  ELSE IF v.special = "Infinity" THEN InfinityValue(TRUE)
  ELSE [v EXCEPT !.m = 0 - @]

InfinityWord == <<"I", "n", "f", "i", "n", "i", "t", "y">>

StrUnsignedDecimal(s) ==
  IF s = InfinityWord THEN InfinityValue(FALSE)
  ELSE DecimalScan(s, 1, [st |-> "start", m |-> 0, nfrac |-> 0, eneg |-> FALSE, ex |-> 0])

\* a sequence of digits after the two characters of a radix prefix
NonDecimal(ds, set, base) ==
  IF ds # <<>> /\ AllIn(ds, set) THEN Normalise(DigitsValue(ds, base), 0) ELSE NaNValue

\* StringNumericLiteral of a text without surrounding white space
StrNumericLiteral(s) ==
  IF s = <<>> THEN Normalise(0, 0)
  ELSE IF Len(s) >= 2 /\ s[1] = "0" /\ s[2] \in {"x", "X"}
    THEN NonDecimal(SubSeq(s, 3, Len(s)), HexDigitChars, 16)
  ELSE IF Len(s) >= 2 /\ s[1] = "0" /\ s[2] \in {"o", "O"}
    THEN NonDecimal(SubSeq(s, 3, Len(s)), {"0", "1", "2", "3", "4", "5", "6", "7"}, 8)
  ELSE IF Len(s) >= 2 /\ s[1] = "0" /\ s[2] \in {"b", "B"}
    THEN NonDecimal(SubSeq(s, 3, Len(s)), {"0", "1"}, 2)
  ELSE IF s[1] = "+" THEN StrUnsignedDecimal(Tail(s))
  ELSE IF s[1] = "-" THEN Negate(StrUnsignedDecimal(Tail(s)))
  ELSE StrUnsignedDecimal(s)

StringToNumber(content) == StrNumericLiteral(TrimRight(TrimLeft(content)))

isNaN(v) == v.special = "NaN"

----------------------------------------------------------------------------
(* Lexer *)

NoValue == [special |-> "<no value>", m |-> 0, e |-> 0]
NullToken == [kind |-> "<null>", start |-> -1, end |-> -1, value |-> NoValue]

\* new Lexer(totalSrc, start, end): this.src = totalSrc.slice(start, end), p = 0.
\* gen is the position of the generator run(): "top" (at the head of the outer
\* loop), "second" (suspended at the first of two consecutive yields, `pend'
\* being the token the second one yields) or "returned".
\* a Lexer that takes the source from start to its end
LexerToEnd(totalSrc, start, end) ==
  [totalSrc |-> totalSrc, start |-> start, src |-> slice(totalSrc, start, Len(totalSrc)),
   p |-> 0, gen |-> "top", pend |-> NullToken]

Lexer(totalSrc, start, end) ==
  [totalSrc |-> totalSrc, start |-> start, src |-> slice(totalSrc, start, end),
   p |-> 0, gen |-> "top", pend |-> NullToken]

\* a lexer that never finds its input at an end
doneNever(L) == FALSE

done(L) == L.p >= Len(L.src)

\* spanned with the two ends exchanged
spannedExchanged(L, kind, value, start, end) ==
  [kind |-> kind, start |-> end + L.start, end |-> start + L.start, value |-> value]

spanned(L, kind, value, start, end) ==
  [kind |-> kind, start |-> start + L.start, end |-> end + L.start, value |-> value]

RECURSIVE skipWhitespaceFrom(_, _)
skipWhitespaceFrom(s, p) ==
  IF char(s, p) \in WhitespaceChars THEN skipWhitespaceFrom(s, p + 1) ELSE p

skipWhitespace(L) == [L EXCEPT !.p = skipWhitespaceFrom(L.src, L.p)]

\* the one-character tokens of token()
SingleCharKind(c) ==
  CASE c = ":" -> "Colon" [] c = ";" -> "Semicolon" [] c = "," -> "Comma" [] c = "." -> "Dot"
    [] c = "(" -> "LParen" [] c = ")" -> "RParen" [] c = "{" -> "LBrace" [] c = "}" -> "RBrace"
    [] c = "[" -> "LBracket" [] c = "]" -> "RBracket" [] c = "<" -> "LAngle" [] c = ">" -> "RAngle"
    [] c = "+" -> "Plus" [] c = "-" -> "Minus" [] c = "*" -> "Star" [] c = "/" -> "Slash"
SingleChars == {":", ";", ",", ".", "(", ")", "{", "}", "[", "]", "<", ">", "+", "-", "*", "/"}

\* token(): the token (NullToken for null), the lexer with its cursor moved, and
\* the exception raised by the string scanner, if any
token(L) ==
  LET start == L.p
      c == char(L.src, L.p)
      c2 == char(L.src, L.p + 1)
      at(n) == [L EXCEPT !.p = start + n]
      tok(kind, n) == [tok |-> spanned(L, kind, NoValue, start, start + n), lexer |-> at(n), threw |-> NoThrow]
      none(n) == [tok |-> NullToken, lexer |-> at(n), threw |-> NoThrow]
      \* scanString raises through token(); otherwise this.p = tokenEnd
      string(r) ==
        IF r.threw # NoThrow THEN [tok |-> NullToken, lexer |-> L, threw |-> r.threw]
        ELSE [tok |-> spanned(L, "String", [special |-> "string", m |-> 0, e |-> 0, str |-> r.value], start, r.p),
              lexer |-> [L EXCEPT !.p = r.p], threw |-> NoThrow]
  IN CASE c = "=" -> IF c2 = "=" THEN tok("EqualsEquals", 2)
                     ELSE IF c2 = ">" THEN tok("Arrow", 2)
                     ELSE tok("Equals", 1)
       [] c = "!" -> IF c2 = "=" THEN tok("NotEquals", 2) ELSE tok("Exclaim", 1)
       [] c \in SingleChars -> tok(SingleCharKind(c), 1)
       [] c = "&" -> IF c2 = "&" THEN tok("AmpAmp", 2) ELSE none(1)
       [] c = "|" -> IF c2 = "|" THEN tok("PipePipe", 2) ELSE none(1)
       [] c \in {"'", "\""} -> string(scanString(L.src, L.p))
       [] OTHER -> none(0)

Keywords ==
  { <<"actor", "Actor">>, <<"await", "Await">>, <<"command", "Command">>, <<"const", "Const">>,
    <<"else", "Else">>, <<"function", "Function">>, <<"handle", "Handle">>, <<"if", "If">>,
    <<"let", "Let">>, <<"query", "Query">>, <<"read", "Read">>, <<"return", "Return">>,
    <<"struct", "Struct">>, <<"this", "This">>, <<"unique", "Unique">> }

\* a TLA+ string as a sequence of one-character strings
Chars(str) == [i \in 1..Len(str) |-> SubSeq(str, i, i)]

processIdent(L, start, end) ==
  LET content == slice(L.src, start, end)
      kw == {k \in Keywords : Chars(k[1]) = content}
      numberOrIdentifier(float) ==
        IF ~isNaN(float) THEN spanned(L, "Number", float, start, end)
        ELSE spanned(L, "Identifier", NoValue, start, end)
  IN IF kw # {} THEN spanned(L, (CHOOSE k \in kw : TRUE)[2], NoValue, start, end)
     ELSE IF content = <<"N", "a", "N">> THEN spanned(L, "Number", NaNValue, start, end)
     ELSE numberOrIdentifier(StringToNumber(content))

\* isNumber with c > "0" for c >= "0"
isNumberAboveZero(c) == c \in Digits \ {"0"}

isNumber(c) == c \in Digits

\* the loop labelled ident of run(), up to its first yield: L.p is the cursor
RECURSIVE identLoop(_, _, _)
identLoop(L, start, isNumberSoFar) ==
  LET c == char(L.src, L.p)
      nextChar == char(L.src, L.p + 1)
      soFar == isNumberSoFar /\ isNumber(c)
      maybeEnd == L.p
      \* const token = this.token(): an identifier ends at a token
      afterToken(t) ==
        IF t.threw # NoThrow
        THEN [lexer |-> [L EXCEPT !.gen = "returned"], value |-> NullToken, done |-> TRUE, threw |-> t.threw]
        ELSE IF t.tok # NullToken
        THEN [lexer |-> [t.lexer EXCEPT !.gen = "second", !.pend = t.tok],
              value |-> processIdent(L, start, maybeEnd), done |-> FALSE, threw |-> NoThrow]
        ELSE identLoop([t.lexer EXCEPT !.p = @ + 1], start, soFar)
  IN IF c = Undefined \/ c \in WhitespaceChars
     THEN [lexer |-> [L EXCEPT !.gen = "top"], value |-> processIdent(L, start, L.p),
           done |-> FALSE, threw |-> NoThrow]
     ELSE IF c = "."
     THEN IF isNumberSoFar /\ nextChar # Undefined /\ isNumber(nextChar)
          THEN identLoop([L EXCEPT !.p = @ + 1], start, isNumberSoFar)
          ELSE [lexer |-> [L EXCEPT !.gen = "second", !.p = @ + 1,
                                    !.pend = spanned(L, "Dot", NoValue, L.p, L.p + 1)],
                value |-> processIdent(L, start, L.p), done |-> FALSE, threw |-> NoThrow]
     ELSE afterToken(token(L))

\* one call of next() on the generator run(): the generator runs to its next
\* yield (done = FALSE), to its end (done = TRUE) or to an exception
run(L) ==
  IF L.gen = "returned"
  THEN [lexer |-> L, value |-> NullToken, done |-> TRUE, threw |-> NoThrow]
  ELSE IF L.gen = "second"
  THEN [lexer |-> [L EXCEPT !.gen = "top", !.pend = NullToken], value |-> L.pend,
        done |-> FALSE, threw |-> NoThrow]
  ELSE LET \* const token = this.token() at the head of the outer loop
           afterToken(t) ==
             IF t.threw # NoThrow
             THEN [lexer |-> [t.lexer EXCEPT !.gen = "returned"], value |-> NullToken, done |-> TRUE,
                   threw |-> t.threw]
             ELSE IF t.tok # NullToken
             THEN [lexer |-> t.lexer, value |-> t.tok, done |-> FALSE, threw |-> NoThrow]
             ELSE IF done(t.lexer)
             THEN [lexer |-> [t.lexer EXCEPT !.gen = "returned"], value |-> NullToken, done |-> TRUE,
                   threw |-> NoThrow]
             ELSE identLoop(t.lexer, t.lexer.p, TRUE)
       IN afterToken(token(skipWhitespace(L)))

----------------------------------------------------------------------------
(* LineCol / Diagnostics *)

\* the constructor of LineCol: offset 0 and the offset after every "\n"
RECURSIVE lineStartsFrom(_, _)
lineStartsFrom(s, i) ==
  IF i >= Len(s) THEN <<>>
  ELSE IF s[i + 1] = "\n" THEN <<i + 1>> \o lineStartsFrom(s, i + 1)
  ELSE lineStartsFrom(s, i + 1)

\* the line starts taken at the newlines, not after them
LineColAtNewline(s) == <<0>> \o [i \in 1..Len(lineStartsFrom(s, 0)) |-> lineStartsFrom(s, 0)[i] - 1]

LineCol(s) == <<0>> \o lineStartsFrom(s, 0)

\* the while (left < right) loop of lookup
RECURSIVE lookupLoop(_, _, _, _)
lookupLoop(lineStarts, offset, left, right) ==
  IF left < right
  THEN LET mid == (left + right + 1) \div 2 IN
       IF lineStarts[mid + 1] <= offset
       THEN lookupLoop(lineStarts, offset, mid, right)
       ELSE lookupLoop(lineStarts, offset, left, mid - 1)
  ELSE left

lookup(lineStarts, offset) ==
  LET position(left) == [line |-> left, character |-> offset - lineStarts[left + 1]]
  IN position(lookupLoop(lineStarts, offset, 0, Len(lineStarts) - 1))

getRange(lineStarts, span) ==
  [start |-> lookup(lineStarts, span.start), end |-> lookup(lineStarts, span.end)]

----------------------------------------------------------------------------
(* ParserBase.  Token kinds and AST kinds are the names of the enumeration *)
(* members; isError is applied to tokens only for the kinds Equals, LParen,*)
(* RParen and RAngle, whose numbers differ from that of ASTKind.Error.     *)

isError(node) == "kind" \in DOMAIN node /\ node.kind = "Error"

\* this.token as the running code sees it: once an exception is raised no
\* statement of the parser runs any more, so every loop ends
cur(P) == IF P.threw # NoThrow THEN NullToken ELSE P.token

\* The generator run() as the parser holds it: the outcomes of the calls of
\* next() it will answer, from the state L of the lexer up to the call that
\* ends it.  The generator runs only when it is resumed, and what it does then
\* depends on the lexer alone, which nothing else touches.
RECURSIVE Generator(_)
Generator(L) ==
  LET resumed(r) == IF r.done \/ r.threw # NoThrow THEN <<r>> ELSE <<r>> \o Generator(r.lexer)
  IN resumed(run(L))

\* next(): pulls one token from the generator; a scan failure raised by the
\* generator is not caught here.  A generator that has ended answers done.
next(P) ==
  IF P.threw # NoThrow THEN P
  ELSE IF P.tokens = <<>> THEN [P EXCEPT !.token = NullToken]
  ELSE LET r == Head(P.tokens)      \* const { value, done } = this.tokens.next()
           P1 == [P EXCEPT !.tokens = Tail(@), !.lexer = r.lexer,
                           !.log.next = IF P.inRecovery THEN Append(@, P.token.kind) ELSE @]
       IN IF r.threw # NoThrow THEN [P1 EXCEPT !.threw = r.threw]
          ELSE IF r.done THEN [P1 EXCEPT !.token = NullToken]
          ELSE [P1 EXCEPT !.token = r.value]

\* What the parser has done so far, kept for the properties and read by no
\* production: next, the kinds of the tokens left behind by next() while
\* inRecovery was set, those of the loop of recover() apart; error, the calls
\* of error() that returned; normal, the changes of inRecovery from true to
\* false; recovery, the calls of recovery() that returned.
NoLog == [next |-> <<>>, error |-> <<>>, normal |-> <<>>, recovery |-> <<>>]

\* constructor(diag, tokens); diag.getSource() returns the source of diag
ParserBase(source, L) ==
  next([src |-> source, endOfSrc |-> Len(source), lineStarts |-> LineCol(source),
        lexer |-> L, tokens |-> Generator(L), token |-> NullToken, allDiags |-> <<>>,
        recoverySet |-> {}, inRecovery |-> FALSE, threw |-> NoThrow, log |-> NoLog])

eofSpan(P) == [start |-> P.endOfSrc, end |-> P.endOfSrc]

tokenSpan(t) == [start |-> t.start, end |-> t.end]

span(P) == IF cur(P) # NullToken THEN tokenSpan(cur(P)) ELSE eofSpan(P)

startOfSpan(P) == IF cur(P) # NullToken THEN cur(P).start ELSE P.endOfSrc

endOfSpan(P) == IF cur(P) # NullToken THEN cur(P).end ELSE P.endOfSrc

backwardExtendSpan(start, sp) == [start |-> start, end |-> sp.end]

backwardExtendNodeSpan(start, toNode) == backwardExtendSpan(start, toNode.span)

\* the while loop of recover()
\* a loop that stops at the end of input only
RECURSIVE recoverLoopToEnd(_, _)
recoverLoopToEnd(P, end) ==
  IF cur(P) # NullToken
  THEN recoverLoopToEnd(next(P), endOfSpan(P))
  ELSE [P |-> P, end |-> end]

RECURSIVE recoverLoop(_, _)
recoverLoop(P, end) ==
  IF cur(P) # NullToken /\ cur(P).kind \notin P.recoverySet
  THEN recoverLoop(next(P), endOfSpan(P))
  ELSE [P |-> P, end |-> end]

\* a span that runs to the end of the token the loop stopped at
recoverToStop(P) ==
  LET start == startOfSpan(P)
      skipped(r) == [P |-> [r.P EXCEPT !.log.next = P.log.next], span |-> [start |-> start, end |-> endOfSpan(r.P)]]
  IN skipped(recoverLoop([P EXCEPT !.inRecovery = TRUE], endOfSpan(P)))

recover(P) ==
  LET start == startOfSpan(P)
      skipped(r) == [P |-> [r.P EXCEPT !.log.next = P.log.next], span |-> [start |-> start, end |-> r.end]]
  IN skipped(recoverLoop([P EXCEPT !.inRecovery = TRUE], endOfSpan(P)))

\* a call of error() from the parser P that returned with the parser Q: the
\* state and the set it was called in, the kinds of the tokens it discarded,
\* the token it stopped at, what it left behind, the token it was called at,
\* the last token it discarded, and the span of the node it returned
ErrorCall(P, Q, node) ==
  LET pulled == Len(P.tokens) - Len(Q.tokens)
  IN [recovering |-> P.inRecovery, set |-> P.recoverySet,
      discarded |-> IF pulled = 0 THEN <<>>
                    ELSE <<P.token.kind>> \o [i \in 1..(pulled - 1) |-> P.tokens[i].value.kind],
      stop |-> Q.token.kind, diags |-> Len(Q.allDiags) - Len(P.allDiags), inRecovery |-> Q.inRecovery,
      origin |-> P.token,
      last |-> IF pulled = 0 THEN NullToken ELSE IF pulled = 1 THEN P.token ELSE P.tokens[pulled - 1].value,
      span |-> node]

\* the node handed up the stack while an exception unwinds it: never used
UnwindNode == [kind |-> "Error", diagnostic |-> [message |-> "<unwinding>"], span |-> [start |-> 0, end |-> 0]]

error(P, sp, message) ==
  LET diagnostic == [range |-> getRange(P.lineStarts, sp), severity |-> "Error",
                     message |-> message, source |-> "the-ceiling"]
      \* const fullRecoverySpan = this.recover()
      recovered(r) ==
        [node |-> [kind |-> "Error", diagnostic |-> diagnostic, span |-> r.span],
         P |-> IF r.P.threw # NoThrow THEN r.P
               ELSE [r.P EXCEPT !.log.error = Append(@, ErrorCall(P, r.P, r.span))]]
  IN IF P.threw # NoThrow THEN [node |-> UnwindNode, P |-> P]
     ELSE recovered(recover([P EXCEPT !.allDiags = Append(@, diagnostic)]))

InternalError == "internal compiler error: inRecoveryFor must be called with error"

\* inRecoveryFor(node): its result, and the parser after its assertion
inRecoveryFor(P, node) ==
  IF P.threw # NoThrow THEN [result |-> TRUE, P |-> P]
  ELSE IF ~P.inRecovery THEN [result |-> FALSE, P |-> P]
  ELSE IF ~isError(node) THEN [result |-> TRUE, P |-> [P EXCEPT !.threw = InternalError]]
  ELSE [result |-> TRUE, P |-> P]

\* recovery(supported, f), up to the call of f: the parser f runs in
recoveryEnter(P, supported) ==
  IF P.threw # NoThrow THEN P ELSE [P EXCEPT !.recoverySet = @ \cup supported]

\* recovery() deleting every supported kind, also those it did not add
recoveryDeleteSupported(P, supported, r) ==
  LET call == [entry |-> P.recoverySet, supported |-> supported, inside |-> r.P.recoverySet,
               exit |-> r.P.recoverySet \ supported]
      asked(c) ==
        IF c.P.threw = NoThrow /\ c.result /\ cur(c.P) # NullToken /\ cur(c.P).kind \in supported
        THEN [node |-> r.node,
              P |-> [c.P EXCEPT !.inRecovery = FALSE, !.log.recovery = Append(@, call),
                                !.log.normal = Append(@, [kind |-> c.P.token.kind, scope |-> supported])]]
        ELSE [node |-> r.node,
              P |-> IF c.P.threw # NoThrow THEN c.P ELSE [c.P EXCEPT !.log.recovery = Append(@, call)]]
  IN IF r.P.threw # NoThrow THEN r
     ELSE asked(inRecoveryFor([r.P EXCEPT !.recoverySet = @ \ supported], r.node))

\* recovery(supported, f), from the return of f: P is the parser at the call of
\* recovery and r the value f returned with the parser f left
recovery(P, supported, r) ==
  LET toRemove == {k \in supported : k \notin P.recoverySet}
      call == [entry |-> P.recoverySet, supported |-> supported, inside |-> r.P.recoverySet,
               exit |-> r.P.recoverySet \ toRemove]
      asked(c) ==
        IF c.P.threw = NoThrow /\ c.result /\ cur(c.P) # NullToken /\ cur(c.P).kind \in supported
        THEN [node |-> r.node,
              P |-> [c.P EXCEPT !.inRecovery = FALSE, !.log.recovery = Append(@, call),
                                !.log.normal = Append(@, [kind |-> c.P.token.kind, scope |-> supported])]]
        ELSE [node |-> r.node,
              P |-> IF c.P.threw # NoThrow THEN c.P ELSE [c.P EXCEPT !.log.recovery = Append(@, call)]]
  IN IF r.P.threw # NoThrow THEN r
     ELSE asked(inRecoveryFor([r.P EXCEPT !.recoverySet = @ \ toRemove], r.node))

\* if (this.inRecoveryFor(x)) return x: the value x, whether the production
\* returns it here, and the parser after the question
returnInRecovery(r) ==
  LET asked(c) == [node |-> r.node, returned |-> c.result, P |-> c.P]
  IN asked(inRecoveryFor(r.P, r.node))

\* this.inRecovery = false
leaveRecovery(P) ==
  IF P.threw # NoThrow THEN P
  ELSE [P EXCEPT !.inRecovery = FALSE,
                 !.log.normal = IF P.inRecovery THEN Append(@, [kind |-> P.token.kind, scope |-> P.recoverySet])
                                ELSE @]

consume(P, kind) ==
  IF cur(P).kind = kind THEN [result |-> TRUE, P |-> next(P)] ELSE [result |-> FALSE, P |-> P]

expect(P, kind, forMsg) ==
  IF cur(P) # NullToken
  THEN IF cur(P).kind = kind THEN [node |-> cur(P), P |-> next(P)]
       ELSE error(P, span(P), "expected " \o kind \o " " \o forMsg \o ", got " \o cur(P).kind)
  ELSE error(P, span(P), "expected " \o kind \o " " \o forMsg \o ", got <eof>")

IdentifierNode(P, t) ==
  [kind |-> "Identifier", name |-> slice(P.src, t.start, t.end), span |-> tokenSpan(t)]

expectIdentifier(P) ==
  IF cur(P) # NullToken
  THEN IF cur(P).kind = "Identifier" THEN [node |-> IdentifierNode(P, cur(P)), P |-> next(P)]
       ELSE error(P, span(P), "expected identifier, got " \o cur(P).kind)
  ELSE error(P, span(P), "expected identifier, got <eof>")

----------------------------------------------------------------------------
(* Parser.  A production takes the parser and returns its node and the     *)
(* parser after it.  A production that goes on after a call is written as  *)
(* a chain of operators, one for each statement that binds the value of a  *)
(* call: parseBinding_name is parseBinding from the binding of `name' on.  *)

RECURSIVE parseTypeExpr(_), parseTypeExpr_handle(_, _, _), parseTypeExpr_lifetimes(_, _, _),
          parseTypeExpr_rangle(_, _, _), parseTypeExpr_inner(_, _, _, _),
          lifetimeLoop(_, _), lifetimeLoop_lifetime(_, _), lifetimeLoop_comma(_, _, _),
          parseExpr(_, _), binaryLoop(_, _, _, _), parsePrimaryExpr(_),
          parsePostfixExpr(_, _, _), parsePostfixExpr_memberIdent(_, _, _),
          argumentList(_, _), argumentList_rparen(_, _, _),
          argsLoop(_, _), argsLoop_arg(_, _), argsLoop_comma(_, _, _)

getBinaryOp(kind) ==
  CASE kind = "Plus" -> "Plus" [] kind = "Minus" -> "Minus" [] kind = "Star" -> "Multiply"
    [] kind = "Slash" -> "Divide" [] kind = "EqualsEquals" -> "Equals"
    [] kind = "NotEquals" -> "NotEquals" [] kind = "AmpAmp" -> "And" [] kind = "PipePipe" -> "Or"
    [] OTHER -> "<null>"

\* one level for every operator
getBinaryPrecedenceFlat(op) == 1

\* the second operator of each pair one level above the first
getBinaryPrecedenceSplit(op) ==
  CASE op = "Or" -> 1 [] op = "And" -> 2 [] op = "Equals" -> 3 [] op = "NotEquals" -> 4
    [] op = "Plus" -> 5 [] op = "Minus" -> 6 [] op = "Multiply" -> 7 [] op = "Divide" -> 8

getBinaryPrecedence(op) ==
  CASE op = "Or" -> 1 [] op = "And" -> 2 [] op \in {"Equals", "NotEquals"} -> 3
    [] op \in {"Plus", "Minus"} -> 4 [] op \in {"Multiply", "Divide"} -> 5

\* the do ... while (consume(Comma)) loop of the lifetime list
lifetimeLoop(P, lifetimes) == lifetimeLoop_lifetime(lifetimes, expectIdentifier(P))

lifetimeLoop_lifetime(lifetimes, lifetime) ==
  IF isError(lifetime.node)
  THEN [failed |-> TRUE, node |-> lifetime.node, lifetimes |-> lifetimes, P |-> lifetime.P]
  ELSE lifetimeLoop_comma(lifetimes, lifetime.node, consume(lifetime.P, "Comma"))

lifetimeLoop_comma(lifetimes, lifetime, comma) ==
  IF comma.result THEN lifetimeLoop(comma.P, Append(lifetimes, lifetime))
  ELSE [failed |-> FALSE, node |-> lifetime, lifetimes |-> Append(lifetimes, lifetime), P |-> comma.P]

\* return { kind: ASTKind.HandleType, unique, lifetimes, inner, span }
\* a handle type that is always unique
HandleTypeUnique(start, unique, lifetimes, inner) ==
  [node |-> [kind |-> "HandleType", unique |-> TRUE, lifetimes |-> lifetimes,
             inner |-> inner.node, span |-> backwardExtendNodeSpan(start, inner.node)],
   P |-> inner.P]

HandleType(start, unique, lifetimes, inner) ==
  [node |-> [kind |-> "HandleType", unique |-> unique, lifetimes |-> lifetimes,
             inner |-> inner.node, span |-> backwardExtendNodeSpan(start, inner.node)],
   P |-> inner.P]

parseTypeExpr(P) ==
  IF cur(P) = NullToken THEN error(P, span(P), "expected type expression, got <eof>")
  ELSE IF cur(P).kind \in {"Unique", "Handle"}
    THEN parseTypeExpr_handle(startOfSpan(P), cur(P).kind = "Unique", next(P))
  ELSE IF cur(P).kind = "Identifier" THEN expectIdentifier(P)
  ELSE error(P, span(P), "expected type expression, got " \o cur(P).kind)

\* case TokenKind.Handle, after this.next()
parseTypeExpr_handle(start, unique, P) ==
  parseTypeExpr_lifetimes(start, unique,
    consume(IF unique THEN leaveRecovery(expect(P, "Handle", "after unique").P) ELSE P, "LAngle"))

parseTypeExpr_lifetimes(start, unique, langle) ==
  IF langle.result THEN parseTypeExpr_rangle(start, unique, lifetimeLoop(langle.P, <<>>))
  ELSE HandleType(start, unique, <<>>, parseTypeExpr(langle.P))

parseTypeExpr_rangle(start, unique, ls) ==
  IF ls.failed THEN [node |-> ls.node, P |-> ls.P]
  ELSE parseTypeExpr_inner(start, unique, ls.lifetimes, expect(ls.P, "RAngle", "to close lifetime list"))

parseTypeExpr_inner(start, unique, lifetimes, rangle) ==
  IF isError(rangle.node) THEN rangle
  ELSE HandleType(start, unique, lifetimes, parseTypeExpr(rangle.P))

\* the do ... while (consume(Comma)) loop of an argument list
argsLoop(P, args) == argsLoop_arg(args, parseExpr(P, 0))

argsLoop_arg(args, arg) == argsLoop_comma(args, arg.node, consume(arg.P, "Comma"))

argsLoop_comma(args, arg, comma) ==
  IF comma.result THEN argsLoop(comma.P, Append(args, arg))
  ELSE [args |-> Append(args, arg), P |-> comma.P]

\* an argument list after its "(" is consumed: the arguments, the end of the
\* call's span and the parser
argumentList(P, forMsg) == argumentList_rparen(endOfSpan(P), forMsg, consume(P, "RParen"))

argumentList_rparen(end, forMsg, rparen) ==
  IF rparen.result THEN [args |-> <<>>, end |-> end, P |-> rparen.P]
  ELSE LET listed(as) == [args |-> as.args, end |-> endOfSpan(as.P), P |-> expect(as.P, "RParen", forMsg).P]
       IN listed(argsLoop(rparen.P, <<>>))

\* Call with the receiver after the arguments
CallReceiverLast(callee, first, al, start) ==
  [kind |-> "Call", callee |-> callee, args |-> al.args \o first, span |-> [start |-> start, end |-> al.end]]

\* return { kind: ASTKind.Call, callee, args, span: { start, end } }, in the loop
Call(callee, first, al, start) ==
  [kind |-> "Call", callee |-> callee, args |-> first \o al.args, span |-> [start |-> start, end |-> al.end]]

parsePostfixExpr(P, expr, start) ==
  IF cur(P) = NullToken THEN [node |-> expr, P |-> P]
  ELSE IF cur(P).kind = "LParen"
    THEN LET call(al) == parsePostfixExpr(al.P, Call(expr, <<>>, al, start), start)
         IN call(argumentList(next(P), "to close function call"))
  ELSE IF cur(P).kind = "Dot" THEN parsePostfixExpr_memberIdent(expr, start, expectIdentifier(next(P)))
  ELSE [node |-> expr, P |-> P]

\* method call sugar: the receiver is the first argument
parsePostfixExpr_memberIdent(expr, start, memberIdent) ==
  IF isError(memberIdent.node) THEN memberIdent
  ELSE IF cur(memberIdent.P) # NullToken /\ cur(memberIdent.P).kind = "LParen"
    THEN LET call(al) == parsePostfixExpr(al.P, Call(memberIdent.node, <<expr>>, al, start), start)
         IN call(argumentList(next(memberIdent.P), "to close method call"))
  ELSE error(memberIdent.P, span(memberIdent.P), "member access not yet implemented")

parsePrimaryExpr(P) ==
  LET start == startOfSpan(P)
      t == cur(P)
      unary(right) ==
        [node |-> [kind |-> "Unary", op |-> "Minus", right |-> right.node,
                   span |-> backwardExtendNodeSpan(start, right.node)],
         P |-> right.P]
      parenthesized(expr) ==
        [node |-> expr.node, P |-> expect(expr.P, "RParen", "to close parenthesized expression").P]
  IN IF t = NullToken THEN error(P, span(P), "expected expression, got <eof>")
     ELSE CASE t.kind = "Minus" -> unary(parsePrimaryExpr(next(P)))
            [] t.kind = "Number" ->
                 [node |-> [kind |-> "NumberLiteral", value |-> t.value, span |-> tokenSpan(t)], P |-> next(P)]
            [] t.kind = "String" ->
                 [node |-> [kind |-> "StringLiteral", value |-> t.value, span |-> tokenSpan(t)], P |-> next(P)]
            [] t.kind = "LParen" -> parenthesized(parseExpr(next(P), 0))
            [] t.kind = "Identifier" -> parsePostfixExpr(next(P), IdentifierNode(P, t), start)
            [] t.kind = "This" ->
                 [node |-> [kind |-> "Identifier", name |-> Chars("this"), span |-> tokenSpan(t)], P |-> next(P)]
            [] OTHER -> error(P, span(P), "expected expression, got " \o t.kind)

\* the precedence-climbing while loop of parseExpr
binaryLoop(P, minPrecedence, start, left) ==
  LET op == getBinaryOp(cur(P).kind)
      precedence == getBinaryPrecedence(op)
      binary(right) ==
        binaryLoop(right.P, minPrecedence, start,
                   [kind |-> "Binary", left |-> left, op |-> op, right |-> right.node,
                    span |-> backwardExtendNodeSpan(start, right.node)])
  IN IF cur(P) = NullToken THEN [node |-> left, P |-> P]
     ELSE IF op = "<null>" THEN [node |-> left, P |-> P]
     ELSE IF precedence < minPrecedence THEN [node |-> left, P |-> P]
     ELSE binary(parseExpr(next(P), precedence + 1))

parseExpr(P, minPrecedence) ==
  LET climb(left) == binaryLoop(left.P, minPrecedence, startOfSpan(P), left.node)
  IN climb(parsePrimaryExpr(P))

parseBinding_colon(start, name, colon) ==
  IF colon.result
  THEN LET typed(type) ==
             [node |-> [name |-> name, type |-> type.node, span |-> backwardExtendNodeSpan(start, type.node)],
              P |-> type.P]
       IN typed(parseTypeExpr(colon.P))
  ELSE [node |-> [name |-> name, span |-> backwardExtendNodeSpan(start, name)], P |-> colon.P]

parseBinding_name(start, name) ==
  IF name.returned THEN [node |-> name.node, P |-> name.P]   \* not recovering from colon
  ELSE parseBinding_colon(start, name.node, consume(name.P, "Colon"))

parseBinding(P) ==
  parseBinding_name(startOfSpan(P),
    returnInRecovery(recovery(P, {"Colon"}, expectIdentifier(recoveryEnter(P, {"Colon"})))))

parseLocal_equals(start, isConst, binding, equals) ==
  IF isError(equals.node) THEN equals
  ELSE LET local(init) ==
             [node |-> [kind |-> IF isConst THEN "Const" ELSE "Let", binding |-> binding,
                        init |-> init.node, span |-> backwardExtendNodeSpan(start, init.node)],
              P |-> init.P]
       IN local(parseExpr(equals.P, 0))

parseLocal_binding(start, isConst, binding) ==
  IF binding.returned THEN [node |-> binding.node, P |-> binding.P]
  ELSE parseLocal_equals(start, isConst, binding.node, expect(binding.P, "Equals", "for let/const binding"))

\* parseLocal after this.next(), which skips let or const
parseLocal_skip(start, isConst, P) ==
  parseLocal_binding(start, isConst,
    returnInRecovery(recovery(P, {"Equals"}, parseBinding(recoveryEnter(P, {"Equals"})))))

parseLocal(P, isConst) == parseLocal_skip(startOfSpan(P), isConst, next(P))

parseReturn(P) ==
  LET start == startOfSpan(P)
      return(value) ==
        [node |-> [kind |-> "Return", value |-> value.node,
                   span |-> backwardExtendNodeSpan(start, value.node)],
         P |-> value.P]
  IN return(parseExpr(next(P), 0))

parseStmt(P) ==
  LET start == startOfSpan(P)
      exprStmt(expr) ==
        [node |-> [kind |-> "ExprStmt", expr |-> expr.node,
                   span |-> backwardExtendNodeSpan(start, expr.node)],
         P |-> expr.P]
  IN IF cur(P) = NullToken THEN error(P, span(P), "expected statement, got <eof>")
     ELSE IF cur(P).kind \in {"Const", "Let"} THEN parseLocal(P, cur(P).kind = "Const")
     ELSE IF cur(P).kind = "Return" THEN parseReturn(P)
     ELSE exprStmt(parseExpr(P, 0))

StmtScope == {"Semicolon", "RBrace"}

\* the do ... while loop of parseBlock: returned = TRUE when the block returns
\* the statement from inside the loop
RECURSIVE blockLoop(_, _), blockLoop_stmt(_, _), blockLoop_while(_, _, _)
blockLoop(P, stmts) ==
  blockLoop_stmt(stmts, returnInRecovery(recovery(P, StmtScope, parseStmt(recoveryEnter(P, StmtScope)))))

blockLoop_stmt(stmts, stmt) ==
  IF stmt.returned THEN [returned |-> TRUE, node |-> stmt.node, stmts |-> stmts, P |-> stmt.P]
  ELSE blockLoop_while(stmts, stmt.node,
                       leaveRecovery(expect(stmt.P, "Semicolon", "to close the statement").P))

\* stmts.unshift(stmt) for stmts.push(stmt)
blockLoop_whileUnshift(stmts, stmt, P) ==
  IF cur(P) # NullToken /\ cur(P).kind # "RBrace" THEN blockLoop(P, <<stmt>> \o stmts)
  ELSE [returned |-> FALSE, node |-> stmt, stmts |-> <<stmt>> \o stmts, P |-> P]

\* P: after expect(Semicolon) and this.inRecovery = false
blockLoop_while(stmts, stmt, P) ==
  IF cur(P) # NullToken /\ cur(P).kind # "RBrace" THEN blockLoop(P, Append(stmts, stmt))
  ELSE [returned |-> FALSE, node |-> stmt, stmts |-> Append(stmts, stmt), P |-> P]

parseBlock_stmts(start, l) ==
  IF l.returned THEN [node |-> l.node, P |-> l.P]
  ELSE [node |-> [stmts |-> l.stmts, span |-> [start |-> start, end |-> endOfSpan(l.P)]],
        P |-> leaveRecovery(expect(l.P, "RBrace", "to terminate block").P)]

parseBlock(P) == parseBlock_stmts(startOfSpan(P), blockLoop(next(P), <<>>))

ParamScope == {"Comma", "RParen", "Colon", "LBrace"}
SignatureScope == {"Colon", "LBrace"}
NameScope == {"LParen", "Colon", "LBrace"}

\* the do ... while (consume(Comma)) loop of the parameter list: returned = TRUE
\* when parseFunction returns the binding from inside the loop
RECURSIVE paramsLoop(_, _), paramsLoop_binding(_, _), paramsLoop_comma(_, _, _)
paramsLoop(P, params) ==
  paramsLoop_binding(params,
    returnInRecovery(recovery(P, ParamScope, parseBinding(recoveryEnter(P, ParamScope)))))

paramsLoop_binding(params, binding) ==
  IF binding.returned
  THEN [returned |-> TRUE, empty |-> FALSE, node |-> binding.node, params |-> params, P |-> binding.P]
  ELSE paramsLoop_comma(params, binding.node, consume(binding.P, "Comma"))

paramsLoop_comma(params, binding, comma) ==
  IF comma.result THEN paramsLoop(comma.P, Append(params, binding))
  ELSE [returned |-> FALSE, empty |-> FALSE, node |-> binding, params |-> Append(params, binding),
        P |-> comma.P]

parseFunction_block(start, name, params, returnType, block) ==
  \* (an exception unwinding parseBlock passes through here as well)
  IF isError(block.node) \/ block.P.threw # NoThrow THEN block
  ELSE [node |-> [kind |-> "FunctionDecl", name |-> name, params |-> params,
                  returnType |-> returnType, body |-> block.node.stmts,
                  span |-> backwardExtendNodeSpan(start, block.node)],
        P |-> block.P]

parseFunction_returnType(start, name, params, returnType) ==
  IF returnType.returned THEN [node |-> returnType.node, P |-> returnType.P]
  ELSE parseFunction_block(start, name, params, returnType.node, parseBlock(returnType.P))

\* let returnType = undefined; if (this.consume(TokenKind.Colon)) ...
parseFunction_colon(start, name, params, colon) ==
  parseFunction_returnType(start, name, params,
    IF colon.result
    THEN returnInRecovery(recovery(colon.P, {"LBrace"}, parseTypeExpr(recoveryEnter(colon.P, {"LBrace"}))))
    ELSE [node |-> [kind |-> "<undefined>"], returned |-> FALSE, P |-> colon.P])

parseFunction_rparen(start, name, params, rparen) ==
  IF rparen.returned THEN [node |-> rparen.node, P |-> rparen.P]
  ELSE parseFunction_colon(start, name, params, consume(rparen.P, "Colon"))

\* ps: the parameter list; ps.empty when consume(RParen) found it empty
parseFunction_params(start, name, ps) ==
  IF ps.returned THEN [node |-> ps.node, P |-> ps.P]
  ELSE parseFunction_rparen(start, name, ps.params,
         IF ps.empty THEN [node |-> NullToken, returned |-> FALSE, P |-> ps.P]
         ELSE returnInRecovery(recovery(ps.P, SignatureScope,
                expect(recoveryEnter(ps.P, SignatureScope), "RParen", "to close function parameters"))))

\* const params = []; if (!this.consume(TokenKind.RParen)) ...
parseFunction_list(start, name, rparen) ==
  parseFunction_params(start, name,
    IF rparen.result
    THEN [returned |-> FALSE, empty |-> TRUE, node |-> NullToken, params |-> <<>>, P |-> rparen.P]
    ELSE paramsLoop(rparen.P, <<>>))

parseFunction_lparen(start, name, lparen) ==
  IF lparen.returned THEN [node |-> lparen.node, P |-> lparen.P]
  ELSE parseFunction_list(start, name, consume(lparen.P, "RParen"))

parseFunction_name(start, name) ==
  IF name.returned THEN [node |-> name.node, P |-> name.P]   \* not recovering
  ELSE parseFunction_lparen(start, name.node,
         returnInRecovery(recovery(name.P, SignatureScope,
           expect(recoveryEnter(name.P, SignatureScope), "LParen", "for function parameters"))))

\* parseFunction after this.next(), which skips function
parseFunction_skip(start, P) ==
  parseFunction_name(start,
    returnInRecovery(recovery(P, NameScope, expectIdentifier(recoveryEnter(P, NameScope)))))

parseFunction(P) == parseFunction_skip(startOfSpan(P), next(P))

parseDeclaration(P) ==
  IF cur(P) = NullToken THEN error(P, span(P), "expected declaration, got <eof>")
  ELSE IF cur(P).kind = "Function" THEN parseFunction(P)
  ELSE error(P, span(P), "expected declaration, got " \o cur(P).kind)

----------------------------------------------------------------------------
(* Sources *)

MaxLexLen == 4

LexAlphabet == {"1", "a", ".", "&", " ", "'", "\\", "(", "="}

RECURSIVE StringsUpTo(_, _)
StringsUpTo(alphabet, n) ==
  IF n = 0 THEN {<<>>}
  ELSE LET shorter == StringsUpTo(alphabet, n - 1)
       IN shorter \cup {Append(s, c) : s \in {t \in shorter : Len(t) = n - 1}, c \in alphabet}

LexExamples ==
  { Chars("2.square()"), Chars("3.14"), Chars("let pi = 3.14;"), Chars("let x = NaN;"),
    Chars("1.2.3 1e5.x"), Chars("'a\\nb'"), Chars("a && b || c"), Chars("3.14 2.square()"),
    Chars("007.50;10.x") }

LexSources == StringsUpTo(LexAlphabet, MaxLexLen) \cup LexExamples

----------------------------------------------------------------------------
(* The lexer driven by a direct consumer: for (const token of lexer.run()) *)

NoParser == [threw |-> NoThrow]
NoDecl == [kind |-> "<none>"]
NoDiagnostics == [lineStarts |-> <<>>]
NoScanner == [tokens |-> <<>>]
NoResult == [kind |-> "<none>"]

InitLex ==
  /\ src \in LexSources
  /\ lexer = Lexer(src, 0, Len(src))
  /\ out = <<>>
  /\ status = "running"
  /\ parser = NoParser
  /\ decl = NoDecl
  /\ diagnostics = NoDiagnostics
  /\ scanner = NoScanner
  /\ result = NoResult
  /\ pc = "off"

\* one tokens.next() of the consumer
Pull ==
  /\ pc = "off"
  /\ status = "running"
  /\ LET pulled(r) ==
           /\ lexer' = r.lexer
           /\ status' = IF r.threw # NoThrow THEN "threw" ELSE IF r.done THEN "done" ELSE "running"
           /\ out' = IF r.threw = NoThrow /\ ~r.done THEN Append(out, r.value) ELSE out
     IN pulled(run(lexer))
  /\ UNCHANGED <<src, parser, decl, pc, diagnostics, scanner, result>>

NextLex == Pull

SpecLex == InitLex /\ [][NextLex]_vars

----------------------------------------------------------------------------
(* Sources of the parser: words joined by single spaces, and the examples  *)
(* of the documentation and the tests as they are written                  *)

RECURSIVE JoinWords(_)
JoinWords(ws) ==
  IF ws = <<>> THEN <<>>
  ELSE IF Len(ws) = 1 THEN Chars(ws[1])
  ELSE Chars(ws[1]) \o <<" ">> \o JoinWords(Tail(ws))

MaxBody == 4
MaxHeader == 4

\* "'x" is an unterminated string literal
BodyWords == {"a", "2", ".", "(", ")", ";", "return", "+", "'x"}
HeaderWords == {"f", "a", "(", ")", ":", ",", "handle"}

\* function t ( ) { <body> }
BodySources ==
  { JoinWords(<<"function", "t", "(", ")", "{">> \o b \o <<"}">>) : b \in StringsUpTo(BodyWords, MaxBody) }

\* function <header> { return 1 ; }
HeaderSources ==
  { JoinWords(<<"function">> \o h \o <<"{", "return", "1", ";", "}">>) : h \in StringsUpTo(HeaderWords, MaxHeader) }

ParseExamples ==
  { Chars("function foo( { return 1; }"),
    Chars("function foo() { return 42; }"),
    Chars("function add(x: number, y: number) { return x + y; }"),
    Chars("function getValue(): number { return 1; }"),
    Chars("function test() { let x = 10; return x; }"),
    Chars("function test() { return 2.square(); }"),
    Chars("function test() { return 2.square().square(); }"),
    Chars("function test(h: unique handle<a, b> Worker) { return h; }"),
    Chars("function test() { return a && b || c; }"),
    Chars("function test() { return 1 + 2 * 3; }"),
    Chars("function test() { return 'a\\nb'; }"),
    Chars("function test() { return 'ab; }"),
    Chars("struct S { }"),
    Chars("") }

\* well-formed declarations, as words, and each of them with one word removed
WellFormedDecls ==
  { <<"function", "f", "(", ")", "{", "return", "1", ";", "}">>,
    <<"function", "f", "(", "a", ")", "{", "return", "a", ";", "}">>,
    <<"function", "f", "(", "a", ":", "T", ")", ":", "T", "{", "let", "x", "=", "a", ";",
      "return", "x", ";", "}">> }

RemoveAt(w, i) == SubSeq(w, 1, i - 1) \o SubSeq(w, i + 1, Len(w))

WellFormedSources == {JoinWords(w) : w \in WellFormedDecls}

DamagedSources == UNION {{JoinWords(RemoveAt(w, i)) : i \in 1..Len(w)} : w \in WellFormedDecls}

\* method calls on the receiver a: a chain is a sequence of calls, a call a
\* method name and a sequence of arguments, x and 2 in turn from either one
MaxChain == 2
MaxArgs == 2

UfcsMethods == {"f", "g"}
UfcsArgs == {"x", "2"}

UfcsArgList(first, n) ==
  [i \in 1..n |-> IF i % 2 = 1 THEN first ELSE CHOOSE other \in UfcsArgs : other # first]

UfcsCalls ==
  {[method |-> m, args |-> UfcsArgList(first, n)] : m \in UfcsMethods, first \in UfcsArgs, n \in 0..MaxArgs}

UfcsChains == StringsUpTo(UfcsCalls, MaxChain) \ {<<>>}

\* x1, ..., xn as it is written
RECURSIVE UfcsArgsText(_)
UfcsArgsText(as) ==
  IF as = <<>> THEN <<>>
  ELSE IF Len(as) = 1 THEN Chars(as[1])
  ELSE Chars(as[1]) \o Chars(", ") \o UfcsArgsText(Tail(as))

\* .f(x1, ..., xn).g(...) as it is written
RECURSIVE UfcsChainText(_)
UfcsChainText(chain) ==
  IF chain = <<>> THEN <<>>
  ELSE Chars(".") \o Chars(chain[1].method) \o Chars("(") \o UfcsArgsText(chain[1].args) \o Chars(")")
       \o UfcsChainText(Tail(chain))

UfcsSource(chain) == Chars("function t() { return a") \o UfcsChainText(chain) \o Chars("; }")

UfcsSources == {UfcsSource(chain) : chain \in UfcsChains}

\* function t ( ) { <body>, the block left open unless the body closes it:
\* locals, negations and names that end in &
SpanWords == {"let", "x", "x&", "=", "-", "}"}

SpanSources ==
  { JoinWords(<<"function", "t", "(", ")", "{">> \o b) : b \in StringsUpTo(SpanWords, MaxBody) }

\* binary expressions: operands joined by a chain of operators
MaxOps == 3

BinaryOps == {"Plus", "Minus", "Multiply", "Divide", "Equals", "NotEquals", "And", "Or"}

\* the operator as it is written
OpText(op) ==
  CASE op = "Plus" -> "+" [] op = "Minus" -> "-" [] op = "Multiply" -> "*" [] op = "Divide" -> "/"
    [] op = "Equals" -> "==" [] op = "NotEquals" -> "!=" [] op = "And" -> "&&" [] op = "Or" -> "||"

OperandNames == <<"x", "y", "z", "u", "v", "w">>

OpChains == {ops \in StringsUpTo(BinaryOps, MaxOps) : 1 <= Len(ops) /\ Len(ops) < Len(OperandNames)}

\* x op1 y op2 z ... as it is written, the operands from the i-th on
RECURSIVE BinaryText(_, _)
BinaryText(ops, i) ==
  IF i > Len(ops) THEN Chars(OperandNames[i])
  ELSE Chars(OperandNames[i]) \o Chars(" ") \o Chars(OpText(ops[i])) \o Chars(" ") \o BinaryText(ops, i + 1)

BinarySource(ops) == Chars("function t() { return ") \o BinaryText(ops, 1) \o Chars("; }")

BinarySources == {BinarySource(ops) : ops \in OpChains}

\* function declarations: parameters, an optional return type, statements
MaxParams == 2
MaxStmts == 2

ParamForms == {"x", "y: number"}
ReturnTypeForms == {"", ": number"}
StmtForms == {"let x = 10", "const y: number = x", "return x + y", "return 42", "foo(1, x)", "x"}

\* the texts joined with sep between them
RECURSIVE JoinTexts(_, _)
JoinTexts(ts, sep) ==
  IF ts = <<>> THEN <<>>
  ELSE IF Len(ts) = 1 THEN Chars(ts[1])
  ELSE Chars(ts[1]) \o Chars(sep) \o JoinTexts(Tail(ts), sep)

\* function foo(P1, ..., Pk) [: T] { S1; ...; Sm; }
FunctionSource(ps, rt, ss) ==
  Chars("function foo(") \o JoinTexts(ps, ", ") \o Chars(")") \o Chars(rt) \o Chars(" { ")
    \o JoinTexts(ss, "; ") \o Chars("; }")

FunctionForms ==
  { <<ps, rt, ss>> : ps \in StringsUpTo(ParamForms, MaxParams), rt \in ReturnTypeForms,
                     ss \in StringsUpTo(StmtForms, MaxStmts) \ {<<>>} }

FunctionSources == { FunctionSource(f[1], f[2], f[3]) : f \in FunctionForms }

\* type expressions: handle prefixes before an identifier, as the type of a
\* parameter and as the return type
MaxTypeDepth == 2

HandleForms == {"handle", "handle<a>", "handle<a, b>", "unique handle", "unique handle<a, b>"}

TypeForms == StringsUpTo(HandleForms, MaxTypeDepth)

TypeText(hs) == JoinTexts(Append(hs, "Actor"), " ")

TypeSource(hs, asReturnType) ==
  IF asReturnType THEN Chars("function test(): ") \o TypeText(hs) \o Chars(" { return 1; }")
  ELSE Chars("function test(h: ") \o TypeText(hs) \o Chars(") { return h; }")

TypeSources == { TypeSource(hs, r) : hs \in TypeForms, r \in BOOLEAN }

\* parameter lists in which one parameter is damaged: its name is missing, or
\* its type is
MaxParamList == 3

BadParamForms == {"1", "+ y", "x: 1"}

BadParamLists ==
  { ps \in StringsUpTo(ParamForms \cup BadParamForms, MaxParamList) :
      Cardinality({i \in 1..Len(ps) : ps[i] \in BadParamForms}) = 1 }

BadParamSource(ps, rt) == FunctionSource(ps, rt, <<"return 42">>)

BadParamSources == { BadParamSource(ps, rt) : ps \in BadParamLists, rt \in ReturnTypeForms }

\* declarations whose body does not open with `{': another token stands in
\* its place, or the body follows the signature at once
NoBraceTails == {"return 42; }", "x return 42; }", "( return 42; }", "; return 42; }", "} return 42; }"}

NoBraceHeader(rt) == Chars("function foo()") \o Chars(rt) \o Chars(" ")

NoBraceSource(rt, tl) == NoBraceHeader(rt) \o Chars(tl)

NoBraceSources == { NoBraceSource(rt, tl) : rt \in ReturnTypeForms, tl \in NoBraceTails }

ParseSources ==
  BodySources \cup HeaderSources \cup ParseExamples \cup WellFormedSources \cup DamagedSources
    \cup UfcsSources \cup BinarySources \cup SpanSources \cup FunctionSources \cup TypeSources
    \cup {Chars("function test() { return; }"), Chars("function f() {}")} \cup BadParamSources \cup NoBraceSources

----------------------------------------------------------------------------
(* The parser driven as in the tests: new Parser(diagnostics, lexer.run()) *)
(* and then parseDeclaration()                                             *)

InitParse ==
  /\ src \in ParseSources
  /\ lexer = Lexer(src, 0, Len(src))
  /\ out = <<>>
  /\ status = "off"
  /\ parser = NoParser
  /\ decl = NoDecl
  /\ diagnostics = NoDiagnostics
  /\ scanner = NoScanner
  /\ result = NoResult
  /\ pc = "start"

\* new Parser(new Diagnostics(uri, src), lexer.run())
Construct ==
  /\ pc = "start"
  /\ parser' = ParserBase(src, lexer)
  /\ lexer' = parser'.lexer
  /\ pc' = IF parser'.threw # NoThrow THEN "threw" ELSE "constructed"
  /\ UNCHANGED <<src, out, status, decl, diagnostics, scanner, result>>

\* parser.parseDeclaration()
ParseDeclaration ==
  /\ pc = "constructed"
  /\ LET returns(r) ==
           /\ parser' = r.P
           /\ lexer' = r.P.lexer
           /\ decl' = IF r.P.threw # NoThrow THEN NoDecl ELSE r.node
           /\ pc' = IF r.P.threw # NoThrow THEN "threw" ELSE "returned"
     IN returns(parseDeclaration(parser))
  /\ UNCHANGED <<src, out, status, diagnostics, scanner, result>>

NextParse == Construct \/ ParseDeclaration

SpecParse == InitParse /\ [][NextParse]_vars

----------------------------------------------------------------------------
(* What the tests read of a parse: the tree without its spans, and whether *)
(* the whole text lexes                                                    *)

\* cleanAST of the tests: the node without its spans.  A binding has no kind.
RECURSIVE cleanAST(_)
cleanAST(node) ==
  LET list(nodes) == [i \in 1..Len(nodes) |-> cleanAST(nodes[i])] IN
  IF "kind" \notin DOMAIN node
  THEN IF "type" \in DOMAIN node THEN <<"Binding", cleanAST(node.name), cleanAST(node.type)>>
       ELSE <<"Binding", cleanAST(node.name)>>
  ELSE
  CASE node.kind = "Identifier" -> <<"Identifier", node.name>>
    [] node.kind = "NumberLiteral" -> <<"NumberLiteral", node.value>>
    [] node.kind = "StringLiteral" -> <<"StringLiteral", node.value>>
    [] node.kind = "Call" -> <<"Call", cleanAST(node.callee), list(node.args)>>
    [] node.kind = "Binary" -> <<"Binary", node.op, cleanAST(node.left), cleanAST(node.right)>>
    [] node.kind = "Unary" -> <<"Unary", node.op, cleanAST(node.right)>>
    [] node.kind \in {"Let", "Const"} -> <<node.kind, cleanAST(node.binding), cleanAST(node.init)>>
    [] node.kind = "Return" -> <<"Return", cleanAST(node.value)>>
    [] node.kind = "ExprStmt" -> <<"ExprStmt", cleanAST(node.expr)>>
    [] node.kind = "HandleType" ->
         <<"HandleType", node.unique, list(node.lifetimes), cleanAST(node.inner)>>
    [] node.kind = "FunctionDecl" ->
         <<"FunctionDecl", cleanAST(node.name), list(node.params), cleanAST(node.returnType),
           list(node.body)>>
    [] OTHER -> <<node.kind>>

\* for (const token of new Lexer(s).run()) raises nothing
LexesWithoutScanFailure(s) ==
  \A r \in {Generator(Lexer(s, 0, Len(s)))} : \A i \in 1..Len(r) : r[i].threw = NoThrow

----------------------------------------------------------------------------
(* Claims *)

\* C1: for every source text that lexes without a string-scan failure,
\* parseDeclaration returns a value and never raises an exception.
C1_ParseDeclarationNeverRaises ==
  pc = "threw" => ~LexesWithoutScanFailure(src)

\* C2: parsing `function foo( { return 1; }` records exactly one diagnostic and
\* returns a FunctionDecl whose parameter position holds an Error node and
\* whose body contains the parsed Return statement.
C2_UnclosedParameterList ==
  (src = Chars("function foo( { return 1; }") /\ pc \in {"returned", "threw"}) =>
    /\ pc = "returned"
    /\ Len(parser.allDiags) = 1
    /\ decl.kind = "FunctionDecl"
    /\ Len(decl.params) = 1 /\ isError(decl.params[1])
    /\ Len(decl.body) = 1 /\ decl.body[1].kind = "Return"

\* C3: a well-formed function declaration from which a single required token
\* has been removed (a token whose removal leaves a text that does not parse
\* cleanly) makes parseDeclaration record exactly one diagnostic.
C3_OneDiagnosticPerRootCause ==
  (src \in DamagedSources /\ pc = "returned" /\ parser.allDiags # <<>>) =>
    Len(parser.allDiags) = 1

\* C4: for every input string, pulling tokens from Lexer.run() never raises an
\* exception.
C4_LexerNeverRaises ==
  status # "threw"

\* C5: a string literal that fails to scan while the parser pulls tokens is
\* caught and turned into exactly one diagnostic at the start of the literal,
\* and parseDeclaration still returns a value: no scan failure leaves the
\* parser as an exception, and a parse that met one has reported it.
C5_ScanFailureCaught ==
  (pc \in {"returned", "threw"} /\ ~LexesWithoutScanFailure(src) /\ parser.tokens = <<>>) =>
    /\ pc = "returned"
    /\ Len(parser.allDiags) >= 1

\* C6: span coverage: for every input that lexes without a scan failure every
\* token lies inside the source and every character of the source that is not
\* white space lies in the span [start, end) of exactly one token.
C6_SpanCoverage ==
  status = "done" =>
    /\ \A i \in 1..Len(out) : out[i].end <= Len(src)
    /\ \A p \in 0..(Len(src) - 1) :
         src[p + 1] \notin WhitespaceChars =>
           Cardinality({i \in 1..Len(out) : out[i].start <= p /\ p < out[i].end}) = 1

\* C7: along the token stream of Lexer.run() spans never overlap and increase
\* monotonically: t1.start <= t1.end <= t2.start for consecutive tokens t1, t2.
C7_SpansMonotone ==
  \A i \in 1..Len(out) :
    /\ out[i].start <= out[i].end
    /\ i < Len(out) => out[i].end <= out[i + 1].start

\* a stream with a token of no characters, a gap of white space and two
\* tokens that touch
C7_Witness ==
  /\ status = "done"
  /\ \E i \in 1..(Len(out) - 1) : out[i].end < out[i + 1].start
  /\ \E i \in 1..(Len(out) - 1) : out[i].end = out[i + 1].start /\ out[i].start < out[i].end
  /\ \E i \in 1..Len(out) : out[i].start = out[i].end

\* the end of the digits that begin at p
RECURSIVE DigitRunEnd(_, _)
DigitRunEnd(s, p) == IF char(s, p) \in Digits THEN DigitRunEnd(s, p + 1) ELSE p

\* what ends a number without joining it: the end of input, white space, and
\* the characters that are tokens by themselves, the dot apart
NumberTerminators ==
  {Undefined} \cup WhitespaceChars \cup (SingleChars \ {"."}) \cup {"=", "!"}

UfcsArgAST(arg) ==
  IF arg = "2" THEN <<"NumberLiteral", Normalise(2, 0)>> ELSE <<"Identifier", Chars(arg)>>

\* a.f(x1, ..., xn) as the claim reads it: Call(f, [a, x1, ..., xn]), the
\* receiver of a later call being the call before it
RECURSIVE UfcsAST(_)
UfcsAST(chain) ==
  IF chain = <<>> THEN <<"Identifier", Chars("a")>>
  ELSE LET last == chain[Len(chain)] IN
       <<"Call", <<"Identifier", Chars(last.method)>>,
         <<UfcsAST(SubSeq(chain, 1, Len(chain) - 1))>>
           \o [i \in 1..Len(last.args) |-> UfcsArgAST(last.args[i])]>>

\* the texts of the calls, each with the tree the claim gives it
UfcsCases == {<<UfcsSource(chain), UfcsAST(chain)>> : chain \in UfcsChains}

\* C9: uniform-function-call desugaring: for the identifier receiver a,
\* `a.f(x1, ..., xn)' (n >= 0) parses, with no diagnostic, to a Call whose
\* callee is the Identifier f and whose arguments are [a, x1, ..., xn] in that
\* order, and chained calls `a.f().g()' nest as Call(g, [Call(f, [a])]).
C9_UfcsDesugaring ==
  (pc \in {"returned", "threw"} /\ src \in UfcsSources) =>
    /\ pc = "returned"
    /\ parser.allDiags = <<>>
    /\ decl.kind = "FunctionDecl"
    /\ Len(decl.body) = 1 /\ decl.body[1].kind = "Return"
    /\ <<src, cleanAST(decl.body[1].value)>> \in UfcsCases

\* `a.f(x, 2).g()' parsed: a call of g on a call of f with three arguments
C9_Witness ==
  /\ pc = "returned"
  /\ src = Chars("function t() { return a.f(x, 2).g(); }")
  /\ parser.allDiags = <<>>
  /\ decl.body[1].value.kind = "Call"
  /\ decl.body[1].value.callee.name = Chars("g")
  /\ Len(decl.body[1].value.args) = 1
  /\ decl.body[1].value.args[1].callee.name = Chars("f")
  /\ Len(decl.body[1].value.args[1].args) = 3
  /\ decl.body[1].value.args[1].args[1].name = Chars("a")

\* C10: inside a function body `2.square().square()' parses, with no
\* diagnostic, to a Call whose callee is square and whose sole argument is
\* another Call with callee square and the arguments [NumberLiteral 2].
C10_NumberReceiver ==
  (src = Chars("function test() { return 2.square().square(); }") /\ pc \in {"returned", "threw"}) =>
    /\ pc = "returned"
    /\ parser.allDiags = <<>>
    /\ decl.kind = "FunctionDecl"
    /\ Len(decl.body) = 1 /\ decl.body[1].kind = "Return"
    /\ cleanAST(decl.body[1].value) =
         <<"Call", <<"Identifier", Chars("square")>>,
           << <<"Call", <<"Identifier", Chars("square")>>, << <<"NumberLiteral", Normalise(2, 0)>> >> >> >> >>

\* the i-th operand as the tests read its node
OperandAST(i) == <<"Identifier", Chars(OperandNames[i])>>

\* the levels as the documentation lists them
Level(op) ==
  CASE op = "Or" -> 1 [] op = "And" -> 2 [] op \in {"Equals", "NotEquals"} -> 3
    [] op \in {"Plus", "Minus"} -> 4 [] op \in {"Multiply", "Divide"} -> 5

\* x lo y hi z and x hi y lo z, each with the tree the claim gives it
PrecedenceCases ==
  {<<BinarySource(ops),
     IF Level(ops[1]) < Level(ops[2])
     THEN <<"Binary", ops[1], OperandAST(1), <<"Binary", ops[2], OperandAST(2), OperandAST(3)>> >>
     ELSE <<"Binary", ops[2], <<"Binary", ops[1], OperandAST(1), OperandAST(2)>>, OperandAST(3)>> >> :
   ops \in {o \in OpChains : Len(o) = 2 /\ Level(o[1]) # Level(o[2])}}

PrecedenceSources == {c[1] : c \in PrecedenceCases}

\* C11: binary precedence: with the levels || = 1, && = 2, == and != = 3,
\* + and - = 4, * and / = 5, for operators lo and hi with
\* precedence(lo) < precedence(hi), `x lo y hi z' parses to
\* Binary(lo, x, Binary(hi, y, z)) and `x hi y lo z' to
\* Binary(lo, Binary(hi, x, y), z); `1 + 2 * 3' is Binary(+, 1, Binary(*, 2, 3))
\* and `a && b || c' is Binary(||, Binary(&&, a, b), c).
C11_BinaryPrecedence ==
  /\ (pc \in {"returned", "threw"} /\ src \in PrecedenceSources) =>
       /\ pc = "returned"
       /\ parser.allDiags = <<>>
       /\ decl.kind = "FunctionDecl"
       /\ Len(decl.body) = 1 /\ decl.body[1].kind = "Return"
       /\ <<src, cleanAST(decl.body[1].value)>> \in PrecedenceCases
  /\ (pc = "returned" /\ src = Chars("function test() { return 1 + 2 * 3; }")) =>
       cleanAST(decl.body[1].value) =
         <<"Binary", "Plus", <<"NumberLiteral", Normalise(1, 0)>>,
           <<"Binary", "Multiply", <<"NumberLiteral", Normalise(2, 0)>>, <<"NumberLiteral", Normalise(3, 0)>> >> >>
  /\ (pc = "returned" /\ src = Chars("function test() { return a && b || c; }")) =>
       cleanAST(decl.body[1].value) =
         <<"Binary", "Or", <<"Binary", "And", <<"Identifier", Chars("a")>>, <<"Identifier", Chars("b")>> >>,
           <<"Identifier", Chars("c")>> >>

\* `x || y * z' parsed: the product is the right operand of the disjunction
C11_Witness ==
  /\ pc = "returned"
  /\ src = Chars("function t() { return x || y * z; }")
  /\ parser.allDiags = <<>>
  /\ decl.body[1].value.kind = "Binary"
  /\ decl.body[1].value.op = "Or"
  /\ decl.body[1].value.right.kind = "Binary"
  /\ decl.body[1].value.right.op = "Multiply"

\* ((x op1 y) op2 z) ... : the operators applied from the left, up to the k-th
RECURSIVE LeftFoldAST(_, _)
LeftFoldAST(ops, k) ==
  IF k = 0 THEN OperandAST(1)
  ELSE <<"Binary", ops[k], LeftFoldAST(ops, k - 1), OperandAST(k + 1)>>

\* the chains of operators of one level, each with its tree from the left
AssociativityCases ==
  {<<BinarySource(ops), LeftFoldAST(ops, Len(ops))>> :
   ops \in {o \in OpChains :
             Len(o) >= 2 /\ \A i \in 1..Len(o) : Level(o[i]) = Level(o[1])}}

AssociativitySources == {c[1] : c \in AssociativityCases}

\* C12: all binary operators are left-associative: for operators op1 and op2
\* of equal precedence `x op1 y op2 z' parses to Binary(op2, Binary(op1, x, y), z),
\* and so on from the left for chains of operands of any length.
C12_LeftAssociative ==
  (pc \in {"returned", "threw"} /\ src \in AssociativitySources) =>
    /\ pc = "returned"
    /\ parser.allDiags = <<>>
    /\ decl.kind = "FunctionDecl"
    /\ Len(decl.body) = 1 /\ decl.body[1].kind = "Return"
    /\ <<src, cleanAST(decl.body[1].value)>> \in AssociativityCases

\* `x - y + z - u' parsed: the last subtraction has the sum as its left operand
C12_Witness ==
  /\ pc = "returned"
  /\ src = Chars("function t() { return x - y + z - u; }")
  /\ parser.allDiags = <<>>
  /\ decl.body[1].value.op = "Minus"
  /\ decl.body[1].value.left.op = "Plus"
  /\ decl.body[1].value.left.left.op = "Minus"
  /\ decl.body[1].value.right.name = Chars("u")

\* the child nodes of a node, in the order the claim lists them
children(node) ==
  IF "kind" \notin DOMAIN node
  THEN <<node.name>> \o (IF "type" \in DOMAIN node THEN <<node.type>> ELSE <<>>)
  ELSE CASE node.kind = "FunctionDecl" ->
              <<node.name>> \o node.params
                \o (IF node.returnType.kind = "<undefined>" THEN <<>> ELSE <<node.returnType>>)
                \o node.body
         [] node.kind \in {"Let", "Const"} -> <<node.binding, node.init>>
         [] node.kind = "Return" -> <<node.value>>
         [] node.kind = "ExprStmt" -> <<node.expr>>
         [] node.kind = "Binary" -> <<node.left, node.right>>
         [] node.kind = "Unary" -> <<node.right>>
         [] node.kind = "Call" -> <<node.callee>> \o node.args
         [] node.kind = "HandleType" -> node.lifetimes \o <<node.inner>>
         [] OTHER -> <<>>

\* start <= end at the node and below it, and each child inside its parent
RECURSIVE SpansNested(_)
SpansNested(node) ==
  /\ node.span.start <= node.span.end
  /\ \A i \in 1..Len(children(node)) :
       /\ node.span.start <= children(node)[i].span.start
       /\ children(node)[i].span.end <= node.span.end
       /\ SpansNested(children(node)[i])

\* C13: in every tree parseDeclaration returns, trees with Error nodes
\* included, the span of each node has start <= end and contains the span of
\* each of its child nodes.
C13_SpansNested ==
  pc = "returned" => SpansNested(decl)

----------------------------------------------------------------------------
(* Lexing and parsing to their end: a caller that goes on asking the       *)
(* generator for tokens, or that constructs the parser and calls           *)
(* parseDeclaration, takes each of its steps in the end                    *)

\* the texts run to their end: every text of a few characters for the lexer,
\* and for the parser function t ( ) { and a few words of a body
MaxRunLen == 3
MaxRunBody == 3

RunAlphabet == {"1", "a", ".", "&", " ", "'"}
RunWords == {"x", "x&", ";", "(", "}"}

RunLexSources == StringsUpTo(RunAlphabet, MaxRunLen)

RunParseSources ==
  { JoinWords(<<"function", "t", "(", ")", "{">> \o b) : b \in StringsUpTo(RunWords, MaxRunBody) }

InitRun ==
  /\ \/ src \in RunLexSources /\ status = "running" /\ pc = "off"
     \/ src \in RunParseSources /\ status = "off" /\ pc = "start"
  /\ lexer = Lexer(src, 0, Len(src))
  /\ out = <<>>
  /\ parser = NoParser
  /\ decl = NoDecl
  /\ diagnostics = NoDiagnostics
  /\ scanner = NoScanner
  /\ result = NoResult

NextRun == Pull \/ Construct \/ ParseDeclaration

\* Weak fairness of each step, WF_vars(A), written out as
\* []<>(~ENABLED <<A>>_vars) \/ []<><<A>>_vars with the guard of the action in
\* the place of its enabling condition: each of the three actions changes pc
\* or status or the lexer whenever its guard holds.
SpecRun ==
  /\ InitRun /\ [][NextRun]_vars
  /\ ([]<>(~(pc = "off" /\ status = "running")) \/ []<><<Pull>>_vars)
  /\ ([]<>(pc # "start") \/ []<><<Construct>>_vars)
  /\ ([]<>(pc # "constructed") \/ []<><<ParseDeclaration>>_vars)

\* the loop over run() has ended, or parseDeclaration has
finished ==
  IF pc = "off" THEN status \in {"done", "threw"} ELSE pc \in {"returned", "threw"}

----------------------------------------------------------------------------
(* Diagnostics: LineCol.getLine and Diagnostics.formatDiagnostic.  The      *)
(* output is a sequence of characters in which each colour code is one     *)
(* element.                                                                 *)

red == "\\x1b[31m"
blue == "\\x1b[34m"
bold == "\\x1b[1m"
reset == "\\x1b[0m"

\* new Diagnostics(uri, src): the fields, lineStarts as LineCol's constructor
\* leaves it
Diagnostics(uri, source) == [uri |-> uri, src |-> source, lineStarts |-> LineCol(source)]

\* this.src.slice(this.lineStarts[i], nextLineStart), where an index past the
\* end of lineStarts reads undefined and slice then runs to the end of src
getLine(D, i) ==
  LET nextLineStart ==
        IF i >= Len(D.lineStarts) THEN Len(D.src)
        ELSE IF i + 1 < Len(D.lineStarts) THEN D.lineStarts[i + 2]
        ELSE Len(D.src)
  IN slice(D.src, D.lineStarts[i + 1], nextLineStart)

\* n.toString() for n >= 0
RECURSIVE toString(_)
toString(n) ==
  IF n < 10 THEN <<SubSeq("0123456789", n + 1, n + 1)>>
  ELSE toString(n \div 10) \o <<SubSeq("0123456789", (n % 10) + 1, (n % 10) + 1)>>

\* c.repeat(n)
repeat(c, n) == [i \in 1..n |-> c]

\* str.padStart(width)
padStart(str, width) == repeat(" ", width - Len(str)) \o str

max(a, b) == IF a >= b THEN a ELSE b

formatDiagnostic(D, diag) ==
  LET line == diag.range.start.line
      col == diag.range.start.character
      errorLine == getLine(D, line)
      lineNumWidth == Len(toString(line + 2))
      pad == repeat(" ", lineNumWidth)
      header ==
        <<bold, red>> \o Chars("error") \o <<reset, bold>> \o Chars(": ") \o diag.message
          \o <<reset, "\n">>
          \o <<blue>> \o pad \o Chars("--> ") \o D.uri \o Chars(":") \o toString(line + 1)
          \o Chars(":") \o toString(col + 1) \o <<reset, "\n">>
          \o <<blue>> \o pad \o Chars(" |") \o <<reset, "\n">>
      previous ==
        IF line > 0
        THEN <<blue>> \o padStart(toString(line), lineNumWidth) \o Chars(" |") \o <<reset, " ">>
               \o getLine(D, line - 1) \o <<"\n">>
        ELSE <<>>
      shown ==
        <<blue>> \o padStart(toString(line + 1), lineNumWidth) \o Chars(" |") \o <<reset, " ">>
          \o errorLine \o <<"\n">>
      indent == col
      underlineLength ==
        IF diag.range.start.line = diag.range.end.line
        THEN max(1, diag.range.end.character - diag.range.start.character)
        ELSE Len(errorLine) - col
      underline ==
        <<blue>> \o pad \o Chars(" |") \o <<reset, " ">> \o repeat(" ", indent) \o <<red>>
          \o repeat("^", underlineLength) \o <<reset, "\n">>
      following ==
        IF line + 1 < Len(D.lineStarts)
        THEN <<blue>> \o padStart(toString(line + 2), lineNumWidth) \o Chars(" |") \o <<reset, " ">>
               \o getLine(D, line + 1) \o <<"\n">>
        ELSE <<>>
  IN header \o previous \o shown \o underline \o following
       \o <<blue>> \o pad \o Chars(" |") \o <<reset, "\n">>

\* the texts given to Diagnostics: lines of a, ended by \n or \r\n or not at all
MaxLineLen == 4
LineAlphabet == {"a", "\n", "\r"}
LineSources == StringsUpTo(LineAlphabet, MaxLineLen) \cup {Chars("ab\ncd")}

\* the diagnostic the parser's error() makes for a span
DiagnosticAt(D, sp) ==
  [range |-> getRange(D.lineStarts, sp), severity |-> "Error", message |-> Chars("m"),
   source |-> "the-ceiling"]

InitDiagnostics ==
  /\ src \in LineSources
  /\ lexer = Lexer(src, 0, Len(src))
  /\ out = <<>>
  /\ status = "off"
  /\ parser = NoParser
  /\ decl = NoDecl
  /\ diagnostics = Diagnostics(Chars("u"), src)
  /\ scanner = NoScanner
  /\ result = NoResult
  /\ pc = "off"

\* diagnostics.lookup(offset)
Lookup ==
  /\ diagnostics # NoDiagnostics
  /\ \E offset \in 0..Len(src) :
       result' = [kind |-> "lookup", offset |-> offset,
                  position |-> lookup(diagnostics.lineStarts, offset)]
  /\ UNCHANGED <<src, lexer, out, status, parser, decl, pc, diagnostics, scanner>>

\* diagnostics.formatDiagnostic(diag), diag made for a span of the source
FormatDiagnostic ==
  /\ diagnostics # NoDiagnostics
  /\ \E start \in 0..Len(src) : \E end \in start..Len(src) :
       result' = [kind |-> "formatDiagnostic",
                  diag |-> DiagnosticAt(diagnostics, [start |-> start, end |-> end]),
                  output |-> formatDiagnostic(diagnostics, DiagnosticAt(diagnostics, [start |-> start, end |-> end]))]
  /\ UNCHANGED <<src, lexer, out, status, parser, decl, pc, diagnostics, scanner>>

NextDiagnostics == Lookup \/ FormatDiagnostic

SpecDiagnostics == InitDiagnostics /\ [][NextDiagnostics]_vars

\* the line starts as the documentation gives them: offset 0 and each offset
\* immediately after a newline
LineStartOffsets(s) == {0} \cup {i \in 1..Len(s) : s[i] = "\n"}

\* the greatest line start at or before the offset
LineStartBefore(s, offset) ==
  CHOOSE a \in LineStartOffsets(s) :
    a <= offset /\ \A b \in LineStartOffsets(s) : b <= offset => b <= a

\* C15: for every source text and every offset o with 0 <= o <= length,
\* lookup(o) returns line = the number of newline characters in src[0, o) and
\* character = o minus the greatest line start <= o; hence character >= 0 and
\* lineStart(line) + character = o.  For `ab\ncd': 0 -> (0,0), 3 -> (1,0),
\* 4 -> (1,1).
C15_Lookup ==
  result.kind = "lookup" =>
    /\ result.position.line = Cardinality({i \in 1..result.offset : src[i] = "\n"})
    /\ result.position.character = result.offset - LineStartBefore(src, result.offset)
    /\ result.position.character >= 0
    /\ diagnostics.lineStarts[result.position.line + 1] + result.position.character = result.offset
    /\ src = Chars("ab\ncd") =>
         /\ result.offset = 0 => result.position = [line |-> 0, character |-> 0]
         /\ result.offset = 3 => result.position = [line |-> 1, character |-> 0]
         /\ result.offset = 4 => result.position = [line |-> 1, character |-> 1]

\* the offset after the second of three newlines looked up: line 2, column 0
C15_Witness ==
  /\ result.kind = "lookup"
  /\ src = <<"a", "\n", "\n", "\n">>
  /\ result.offset = 3
  /\ result.position = [line |-> 2, character |-> 0]

\* the carets of an output
CaretCount(output) == Cardinality({i \in 1..Len(output) : output[i] = "^"})

\* the number of characters of a line of the source, its terminator (\n, or
\* \r\n) not counted
RECURSIVE LineTextEnd(_, _)
LineTextEnd(s, p) == IF p >= Len(s) \/ s[p + 1] = "\n" THEN p ELSE LineTextEnd(s, p + 1)

LineTextLengths(s, lineStart) ==
  LET end == LineTextEnd(s, lineStart)
  IN {end - lineStart} \cup (IF end > lineStart /\ s[end] = "\r" THEN {end - 1 - lineStart} ELSE {})

\* C16: when a diagnostic's range starts and ends on different lines,
\* formatDiagnostic draws a caret underline that begins at the start column
\* and extends exactly to the end of the first line's text: its length is the
\* number of characters of the error line, the line terminator excluded,
\* minus the start column.
C16_UnderlineToEndOfLine ==
  (result.kind = "formatDiagnostic" /\ result.diag.range.start.line # result.diag.range.end.line) =>
    \E length \in LineTextLengths(src, diagnostics.lineStarts[result.diag.range.start.line + 1]) :
      CaretCount(result.output) = length - result.diag.range.start.character

----------------------------------------------------------------------------
(* IslandScanner.  this.tokens is the generator run() of a Lexer over the   *)
(* whole buffer, held as the outcomes of the calls of next() it has yet to *)
(* answer; once it has returned or raised, next() answers done.            *)

\* new IslandScanner(src)
IslandScanner(source) == [src |-> source, tokens |-> Generator(Lexer(source, 0, Len(source)))]

isIslandStart(kind) == kind \in {"Actor", "Struct", "Function", "Query", "Command"}

\* this.tokens.next(): its outcome, and the generator after it
tokensNext(tokens) ==
  IF tokens = <<>>
  THEN [value |-> NullToken, done |-> TRUE, threw |-> NoThrow, tokens |-> <<>>]
  ELSE [value |-> Head(tokens).value, done |-> Head(tokens).done, threw |-> Head(tokens).threw,
        tokens |-> Tail(tokens)]

\* the loop of findNextTopLevelBrace with depth = {paren, angle}: the value
\* returned or the Error raised, and the generator after it
RECURSIVE findNextTopLevelBraceLoop(_, _, _)
findNextTopLevelBraceLoop(tokens, paren, angle) ==
  LET res == tokensNext(tokens)
      tok == res.value
      paren1 == IF tok.kind = "LParen" THEN paren + 1 ELSE IF tok.kind = "RParen" THEN paren - 1 ELSE paren
      angle1 == IF tok.kind = "LAngle" THEN angle + 1 ELSE IF tok.kind = "RAngle" THEN angle - 1 ELSE angle
  IN IF res.threw # NoThrow THEN [threw |-> res.threw, value |-> -1, tokens |-> res.tokens]
     ELSE IF res.done THEN [threw |-> "expected body brace", value |-> -1, tokens |-> res.tokens]
     ELSE IF tok.kind = "LBrace" /\ paren1 = 0 /\ angle1 = 0
     THEN [threw |-> NoThrow, value |-> tok.start, tokens |-> res.tokens]
     ELSE findNextTopLevelBraceLoop(res.tokens, paren1, angle1)

findNextTopLevelBrace(tokens) == findNextTopLevelBraceLoop(tokens, 0, 0)

\* the loop of findMatchingBrace
RECURSIVE findMatchingBraceLoop(_, _)
findMatchingBraceLoop(tokens, braceDepth) ==
  LET res == tokensNext(tokens)
      tok == res.value
  IN IF res.threw # NoThrow THEN [threw |-> res.threw, value |-> -1, tokens |-> res.tokens]
     ELSE IF res.done THEN [threw |-> "unmatched brace", value |-> -1, tokens |-> res.tokens]
     ELSE IF isIslandStart(tok.kind) THEN [threw |-> NoThrow, value |-> tok.start, tokens |-> res.tokens]
     ELSE IF tok.kind = "LBrace" THEN findMatchingBraceLoop(res.tokens, braceDepth + 1)
     ELSE IF tok.kind = "RBrace"
     THEN IF braceDepth - 1 = 0 THEN [threw |-> NoThrow, value |-> tok.end, tokens |-> res.tokens]
          ELSE findMatchingBraceLoop(res.tokens, braceDepth - 1)
     ELSE findMatchingBraceLoop(res.tokens, braceDepth)

findMatchingBrace(tokens) == findMatchingBraceLoop(tokens, 1)

\* scan(): for (const token of this.tokens) with its try ... catch: the
\* islands returned or the Error that leaves scan, and the generator after it
RECURSIVE scanLoop(_, _, _), scan_brace(_, _, _, _), scan_end(_, _, _, _)
scanLoop(source, tokens, islands) ==
  LET res == tokensNext(tokens)
  IN IF res.threw # NoThrow THEN [threw |-> res.threw, islands |-> islands, tokens |-> res.tokens]
     ELSE IF res.done THEN [threw |-> NoThrow, islands |-> islands, tokens |-> res.tokens]
     ELSE IF isIslandStart(res.value.kind)
     THEN scan_brace(source, islands, res.value.start, findNextTopLevelBrace(res.tokens))
     ELSE scanLoop(source, res.tokens, islands)

scan_brace(source, islands, start, brace) ==
  IF brace.threw # NoThrow THEN scanLoop(source, brace.tokens, islands)   \* catch: continue
  ELSE scan_end(source, islands, start, findMatchingBrace(brace.tokens))

\* without the catch around findMatchingBrace: the island is pushed to the
\* end of the buffer
scan_endUncaught(source, islands, start, end) ==
  scanLoop(source, end.tokens,
           Append(islands, slice(source, start, IF end.threw # NoThrow THEN Len(source) ELSE end.value)))

scan_end(source, islands, start, end) ==
  IF end.threw # NoThrow THEN scanLoop(source, end.tokens, islands)       \* catch: continue
  ELSE scanLoop(source, end.tokens, Append(islands, slice(source, start, end.value)))

scan(S) == scanLoop(S.src, S.tokens, <<>>)

\* buffers: words joined by single spaces, and declarations as they are
\* written
MaxIsland == 4
IslandWords == {"function", "f", "(", "{", "}", "'"}

IslandExamples ==
  { Chars("function f ( ) { }"),
    Chars("x function f ( a ) { { } } ) actor A < b > { x } }"),
    Chars("actor A { function f ( ) { } }"),
    Chars("function f ( ) { a&}"),
    Chars("function f ( ) { } 'x"),
    Chars("struct S { 'x } function f ( ) { }") }

IslandWordSources == { JoinWords(ws) : ws \in StringsUpTo(IslandWords, MaxIsland) }

\* declarations with a header and a brace-balanced body, as words
PlainDecls ==
  { <<"function", "f", "(", ")", "{", "}">>,
    <<"actor", "A", "<", "b", ">", "{", "x", "{", "}", "}">>,
    <<"function", "f", "(", "{", ")", "{", "a", "}">> }

IslandDecls ==
  PlainDecls \cup
  { <<"actor", "A", "{", "function", "f", "(", ")", "{", "}", "}">>,
    <<"function", "f", "(", ")", "{", "a&}">> }

\* text between declarations: no declaration keyword, no quote
IslandSeparators == { <<>>, <<"x">>, <<"}", "(", "{">> }

\* declarations cut short by the end of the buffer: before the brace of the
\* body, or before the braces balance
IslandTails ==
  { <<"function", "f", "(">>, <<"actor", "A">>, <<"function", "f", "(", "{", ")">>,
    <<"function", "f", "(", ")", "{", "{", "}">>, <<"struct", "S", "{", "x">> }

MaxDecls == 2

\* up to n declarations of decls, a separator before each: the words, and
\* the texts of the declarations in the order they are written
RECURSIVE DeclRuns(_, _)
DeclRuns(decls, n) ==
  IF n = 0 THEN {[words |-> <<>>, islands |-> <<>>]}
  ELSE LET shorter == DeclRuns(decls, n - 1)
       IN shorter \cup
          { [words |-> r.words \o s \o d, islands |-> Append(r.islands, JoinWords(d))] :
              r \in {t \in shorter : Len(t.islands) = n - 1}, s \in IslandSeparators, d \in decls }

\* <<buffer, declarations>>: declarations and separators
DeclarationCases ==
  { <<JoinWords(r.words \o s), r.islands>> : r \in DeclRuns(IslandDecls, MaxDecls), s \in IslandSeparators }

\* <<buffer, declarations>>: declarations and separators, then a declaration
\* cut short
UnfinishedCases ==
  { <<JoinWords(r.words \o s \o t), r.islands>> :
      r \in DeclRuns(PlainDecls, MaxDecls), s \in IslandSeparators, t \in IslandTails }

IslandSources ==
  IslandWordSources \cup IslandExamples
    \cup {c[1] : c \in DeclarationCases} \cup {c[1] : c \in UnfinishedCases}

InitIsland ==
  /\ src \in IslandSources
  /\ lexer = Lexer(src, 0, Len(src))
  /\ out = <<>>
  /\ status = "off"
  /\ parser = NoParser
  /\ decl = NoDecl
  /\ diagnostics = NoDiagnostics
  /\ scanner = IslandScanner(src)
  /\ result = NoResult
  /\ pc = "off"

\* scanner.scan()
Scan ==
  /\ scanner # NoScanner
  /\ result = NoResult
  /\ LET returns(r) ==
           /\ result' = [kind |-> "scan", threw |-> r.threw, islands |-> r.islands]
           /\ scanner' = [scanner EXCEPT !.tokens = r.tokens]
     IN returns(scan(scanner))
  /\ UNCHANGED <<src, lexer, out, status, parser, decl, pc, diagnostics>>

NextIsland == Scan

SpecIsland == InitIsland /\ [][NextIsland]_vars

----------------------------------------------------------------------------
(* Claims about the island scanner *)

DeclarationStart == {"Actor", "Struct", "Function", "Query", "Command"}

\* the kinds of the tokens of a text, up to its end or its scan failure
TokenKinds(s) ==
  LET kindsOf(r) == [i \in 1..Len(SelectSeq(r, LAMBDA x : x.threw = NoThrow /\ ~x.done)) |-> r[i].value.kind]
  IN kindsOf(Generator(Lexer(s, 0, Len(s))))

\* the index of the `{' that opens the body: the first at parenthesis depth
\* and angle depth 0 after token i; 0 when there is none
RECURSIVE BodyOpens(_, _, _, _)
BodyOpens(ks, i, paren, angle) ==
  IF i > Len(ks) THEN 0
  ELSE LET p1 == IF ks[i] = "LParen" THEN paren + 1 ELSE IF ks[i] = "RParen" THEN paren - 1 ELSE paren
           a1 == IF ks[i] = "LAngle" THEN angle + 1 ELSE IF ks[i] = "RAngle" THEN angle - 1 ELSE angle
       IN IF ks[i] = "LBrace" /\ p1 = 0 /\ a1 = 0 THEN i ELSE BodyOpens(ks, i + 1, p1, a1)

\* the index of the `}' that returns the brace depth to 0, from token i at
\* the given depth; 0 when there is none
RECURSIVE BodyCloses(_, _, _)
BodyCloses(ks, i, depth) ==
  IF i > Len(ks) THEN 0
  ELSE IF ks[i] = "LBrace" THEN BodyCloses(ks, i + 1, depth + 1)
  ELSE IF ks[i] = "RBrace" THEN IF depth = 1 THEN i ELSE BodyCloses(ks, i + 1, depth - 1)
  ELSE BodyCloses(ks, i + 1, depth)

\* a complete island: from a declaration keyword to the `}' that closes
\* its body, and no further
CompleteIsland(island) ==
  LET complete(ks) ==
        /\ ks # <<>>
        /\ ks[1] \in DeclarationStart
        /\ BodyOpens(ks, 2, 0, 0) # 0
        /\ BodyCloses(ks, BodyOpens(ks, 2, 0, 0) + 1, 1) = Len(ks)
  IN /\ island # <<>>
     /\ island[Len(island)] = "}"
     /\ complete(TokenKinds(island))

\* C17: scan returns only complete islands: every returned substring starts
\* at a declaration-start keyword and ends at the `}' that returns the brace
\* depth to 0 after the `{' that opens the body; an island left unfinished
\* when another declaration-start keyword is met is not in the result.
C17_OnlyCompleteIslands ==
  result.kind = "scan" => \A i \in 1..Len(result.islands) : CompleteIsland(result.islands[i])

\* C18: for a buffer of well-formed top-level declarations (keyword, header,
\* brace-balanced body) separated by tokens that are neither declaration
\* keywords nor quotes, scan returns exactly one substring per declaration,
\* in source order, each the text from the keyword through the matching
\* closing brace.
C18_OneIslandPerDeclaration ==
  (result.kind = "scan" /\ src \in {c[1] : c \in DeclarationCases}) =>
    /\ result.threw = NoThrow
    /\ <<src, result.islands>> \in DeclarationCases

\* C19: scan returns normally for every buffer: a string-scan failure never
\* leaves scan.
C19_ScanFailureNeverEscapes ==
  result.kind = "scan" => result.threw = NoThrow

\* C20: an island that reaches the end of the input before the `{' of its
\* body, or before its braces balance, is dropped: scan returns normally, the
\* result has no substring for it, and the islands completed before it are
\* returned.
C20_UnfinishedIslandDropped ==
  (result.kind = "scan" /\ src \in {c[1] : c \in UnfinishedCases}) =>
    /\ result.threw = NoThrow
    /\ <<src, result.islands>> \in UnfinishedCases

\* two declarations, then a function whose body never closes
C20_Witness ==
  /\ result.kind = "scan"
  /\ src = Chars("function f ( ) { } x actor A < b > { x { } } } ( { function f ( ) { { }")
  /\ result.threw = NoThrow
  /\ Len(result.islands) = 2

----------------------------------------------------------------------------
(* A Lexer over a part of the source: new Lexer(totalSrc, start, end), its *)
(* tokens pulled by a direct consumer                                      *)

RangeExamples == { Chars("let x = 'a' + 3.5;"), Chars("a&&b|c") }

RangeSources == RunLexSources \cup RangeExamples

InitRange ==
  /\ src \in RangeSources
  /\ \E start \in 0..Len(src) : \E end \in start..Len(src) :
       /\ lexer = Lexer(src, start, end)
       /\ result = [kind |-> "new Lexer", start |-> start, end |-> end]
  /\ out = <<>>
  /\ status = "running"
  /\ parser = NoParser
  /\ decl = NoDecl
  /\ diagnostics = NoDiagnostics
  /\ scanner = NoScanner
  /\ pc = "off"

NextRange == Pull

SpecRange == InitRange /\ [][NextRange]_vars

\* the tokens a whole run yields, and how the run ends
RunOutcome(L) ==
  LET outcome(g) ==
        [tokens |-> [i \in 1..(Len(g) - 1) |-> g[i].value],
         status |-> IF g[Len(g)].threw # NoThrow THEN "threw" ELSE "done"]
  IN outcome(Generator(L))

\* a token with start and end increased by n
Shifted(t, n) == [t EXCEPT !.start = @ + n, !.end = @ + n]

----------------------------------------------------------------------------
(* The StringScanner by itself: new StringScanner(src, p).scanString()     *)

MaxStringLen == 4
StringAlphabet == {"'", "\"", "\\", "n", "x", "4"}

\* the pieces of a literal: characters, the escapes, and escapes cut short
MaxUnits == 2
StringUnits ==
  { "a", "'", "\"", "\\n", "\\r", "\\t", "\\\\", "\\\"", "\\'", "\\q", "\\x41", "\\x4", "\\xg1",
    "\\u0041", "\\u00", "\\u{41}", "\\u{}", "\\u{4", "\\" }

RECURSIVE JoinUnits(_)
JoinUnits(us) == IF us = <<>> THEN <<>> ELSE Chars(us[1]) \o JoinUnits(Tail(us))

\* a quote, pieces, the same quote, and a character after it
StringLiterals ==
  { <<q>> \o JoinUnits(us) \o <<q, "a">> : q \in {"'", "\""}, us \in StringsUpTo(StringUnits, MaxUnits) }

StringSources ==
  StringsUpTo(StringAlphabet, MaxStringLen) \cup StringLiterals \cup {Chars("'a\\nb'")}

InitString ==
  /\ src \in StringSources
  /\ lexer = Lexer(src, 0, Len(src))
  /\ out = <<>>
  /\ status = "off"
  /\ parser = NoParser
  /\ decl = NoDecl
  /\ diagnostics = NoDiagnostics
  /\ scanner = NoScanner
  /\ result = NoResult
  /\ pc = "off"

\* new StringScanner(src, p).scanString(): the value returned and scanner.p
\* after it, or the exception
ScanString ==
  /\ result = NoResult
  /\ pc = "off" /\ status = "off" /\ scanner = NoScanner /\ diagnostics = NoDiagnostics
  /\ \E p \in 0..Len(src) :
       LET returns(r) ==
             result' = [kind |-> "scanString", start |-> p, threw |-> r.threw, value |-> r.value, p |-> r.p]
       IN returns(scanString(src, p))
  /\ UNCHANGED <<src, lexer, out, status, parser, decl, pc, diagnostics, scanner>>

NextString == ScanString

SpecString == InitString /\ [][NextString]_vars

\* the number of backslashes that end at offset j - 1 and begin after p
RECURSIVE BackslashRun(_, _, _)
BackslashRun(s, p, j) == IF j - 1 > p /\ char(s, j - 1) = "\\" THEN 1 + BackslashRun(s, p, j - 1) ELSE 0

\* the offsets after p of the unescaped occurrences of the quote at p: the
\* backslashes just before them pair up
ClosingQuotes(s, p) ==
  { j \in (p + 1)..(Len(s) - 1) : s[j + 1] = s[p + 1] /\ BackslashRun(s, p, j) % 2 = 0 }

Min(S) == CHOOSE x \in S : \A y \in S : x <= y

AllHex(t) == \A i \in 1..Len(t) : t[i] \in HexDigitChars

\* the length of the hex escape that begins with the letter at text[1]: 0
\* when it is cut short or has a character that is no hex digit
HexEscapeLen(text) ==
  IF text[1] = "x" THEN IF Len(text) >= 3 /\ AllHex(SubSeq(text, 2, 3)) THEN 3 ELSE 0
  ELSE IF Len(text) >= 2 /\ text[2] = "{"
  THEN LET close == {k \in 4..Len(text) : text[k] = "}" /\ AllHex(SubSeq(text, 3, k - 1))}
       IN IF close = {} THEN 0 ELSE Min(close)
  ELSE IF Len(text) >= 5 /\ AllHex(SubSeq(text, 2, 5)) THEN 5 ELSE 0

\* the digits of the hex escape of that length
HexEscapeDigits(text, n) == IF text[2] = "{" THEN SubSeq(text, 3, n - 1) ELSE SubSeq(text, 2, n)

RECURSIVE HexValue(_)
HexValue(t) == IF t = <<>> THEN 0 ELSE 16 * HexValue(SubSeq(t, 1, Len(t) - 1)) + HexDigitValue(t[Len(t)])

SimpleEscape(c) ==
  CASE c = "n" -> "\n" [] c = "r" -> "\r" [] c = "t" -> "\t" [] OTHER -> c

\* every \x and \u of the text between the quotes begins a complete hex escape
RECURSIVE HexEscapesComplete(_)
HexEscapesComplete(text) ==
  IF text = <<>> THEN TRUE
  ELSE IF text[1] # "\\" THEN HexEscapesComplete(Tail(text))
  ELSE IF Len(text) = 1 THEN FALSE
  ELSE IF text[2] \in {"x", "u"}
  THEN /\ HexEscapeLen(Tail(text)) > 0
       /\ HexValue(HexEscapeDigits(Tail(text), HexEscapeLen(Tail(text)))) <= 1114111
       /\ HexEscapesComplete(SubSeq(text, 2 + HexEscapeLen(Tail(text)), Len(text)))
  ELSE HexEscapesComplete(SubSeq(text, 3, Len(text)))

\* the text between the quotes decoded: \n \r \t \\ \" \' to their characters,
\* any other escaped character copied; with hex, \x and \u begin the escapes
\* \xHH, \uHHHH and \u{H...} 
RECURSIVE Decoded(_, _)
Decoded(text, hex) ==
  IF text = <<>> THEN <<>>
  ELSE IF text[1] # "\\" THEN <<text[1]>> \o Decoded(Tail(text), hex)
  ELSE IF hex /\ text[2] \in {"x", "u"}
  THEN <<CodeChar(HexValue(HexEscapeDigits(Tail(text), HexEscapeLen(Tail(text)))))>>
         \o Decoded(SubSeq(text, 2 + HexEscapeLen(Tail(text)), Len(text)), hex)
  ELSE <<SimpleEscape(text[2])>> \o Decoded(SubSeq(text, 3, Len(text)), hex)

\* scanString was started at a quote that has a closing quote
Closed == 
  /\ result.kind = "scanString"
  /\ char(src, result.start) \in {"'", "\""}
  /\ ClosingQuotes(src, result.start) # {}

LiteralText == SubSeq(src, result.start + 2, Min(ClosingQuotes(src, result.start)))

----------------------------------------------------------------------------
(* Claims about what the parser accepts *)

\* the trees of the forms, as the tests print them
Ident(name) == <<"Identifier", Chars(name)>>
Num(m, e) == <<"NumberLiteral", [special |-> "", m |-> m, e |-> e]>>

ParamAST(p) ==
  CASE p = "x" -> <<"Binding", Ident("x")>>
    [] p = "y: number" -> <<"Binding", Ident("y"), Ident("number")>>

ReturnTypeAST(rt) == IF rt = "" THEN <<"<undefined>">> ELSE Ident("number")

StmtAST(st) ==
  CASE st = "let x = 10" -> <<"Let", <<"Binding", Ident("x")>>, Num(1, 1)>>
    [] st = "const y: number = x" -> <<"Const", <<"Binding", Ident("y"), Ident("number")>>, Ident("x")>>
    [] st = "return x + y" -> <<"Return", <<"Binary", "Plus", Ident("x"), Ident("y")>>>>
    [] st = "return 42" -> <<"Return", Num(42, 0)>>
    [] st = "foo(1, x)" -> <<"ExprStmt", <<"Call", Ident("foo"), <<Num(1, 0), Ident("x")>>>>>>
    [] st = "x" -> <<"ExprStmt", Ident("x")>>

FunctionAST(ps, rt, ss) ==
  <<"FunctionDecl", Ident("foo"), [i \in 1..Len(ps) |-> ParamAST(ps[i])], ReturnTypeAST(rt),
    [i \in 1..Len(ss) |-> StmtAST(ss[i])]>>

FunctionCases == { <<FunctionSource(f[1], f[2], f[3]), FunctionAST(f[1], f[2], f[3])>> : f \in FunctionForms }

\* C23: for every source `function N(P1, ..., Pk) [: T] { S1; ...; Sm; }'
\* with k >= 0, m >= 1, each Pi a name or `name: Type' and each Si a
\* well-formed let/const binding, `return expr' or expression statement,
\* parseDeclaration returns a FunctionDecl with name N, the k bindings in
\* params in source order and the m statements in body in source order, and
\* records no diagnostic.
C23_FunctionDeclaration ==
  (src \in FunctionSources /\ pc \in {"returned", "threw"}) =>
    /\ pc = "returned"
    /\ parser.allDiags = <<>>
    /\ decl.kind = "FunctionDecl"
    /\ <<src, cleanAST(decl)>> \in FunctionCases

\* two parameters, a return type and two statements
C23_Witness ==
  /\ pc = "returned"
  /\ src = Chars("function foo(x, y: number): number { const y: number = x; return x + y; }")
  /\ decl.kind = "FunctionDecl"
  /\ Len(decl.params) = 2 /\ Len(decl.body) = 2
  /\ parser.allDiags = <<>>

\* the handle types as the claim reads them
HandleUnique(h) == h \in {"unique handle", "unique handle<a, b>"}

HandleLifetimes(h) ==
  CASE h \in {"handle", "unique handle"} -> <<>>
    [] h = "handle<a>" -> <<Ident("a")>>
    [] h \in {"handle<a, b>", "unique handle<a, b>"} -> <<Ident("a"), Ident("b")>>

RECURSIVE TypeAST(_)
TypeAST(hs) ==
  IF hs = <<>> THEN Ident("Actor")
  ELSE <<"HandleType", HandleUnique(hs[1]), HandleLifetimes(hs[1]), TypeAST(Tail(hs))>>

TypeCases ==
  { <<TypeSource(hs, FALSE), TypeAST(hs)>> : hs \in TypeForms }
    \cup { <<TypeSource(hs, TRUE), TypeAST(hs)>> : hs \in TypeForms }

\* the type expression of the text: of the parameter, or the return type
ParsedType == IF decl.params = <<>> THEN decl.returnType ELSE decl.params[1].type

\* C24: an identifier parses to an Identifier type; `handle T',
\* `handle<a, b> T' and `unique handle T' parse to a HandleType whose unique
\* flag is true exactly when `unique' is written, whose lifetimes are the
\* listed identifiers in order and whose inner is the type expression that
\* follows, nested handle types included; none records a diagnostic.
C24_TypeExpressions ==
  (src \in TypeSources /\ pc \in {"returned", "threw"}) =>
    /\ pc = "returned"
    /\ parser.allDiags = <<>>
    /\ decl.kind = "FunctionDecl"
    /\ <<src, cleanAST(ParsedType)>> \in TypeCases

\* a unique handle with lifetimes around a handle
C24_Witness ==
  /\ pc = "returned"
  /\ src = Chars("function test(h: unique handle<a, b> handle Actor) { return h; }")
  /\ parser.allDiags = <<>>
  /\ decl.params[1].type.kind = "HandleType"
  /\ decl.params[1].type.unique
  /\ Len(decl.params[1].type.lifetimes) = 2
  /\ decl.params[1].type.inner.kind = "HandleType"
  /\ ~decl.params[1].type.inner.unique

\* C25: the expression of a return statement is optional: inside a function
\* body, `return;' parses to a Return statement without a value and records
\* no diagnostic.
C25_ReturnWithoutValue ==
  (src = Chars("function test() { return; }") /\ pc \in {"returned", "threw"}) =>
    /\ pc = "returned"
    /\ parser.allDiags = <<>>
    /\ decl.kind = "FunctionDecl"
    /\ Len(decl.body) = 1
    /\ decl.body[1].kind = "Return"
    /\ ("value" \notin DOMAIN decl.body[1] \/ ~isError(decl.body[1].value))

----------------------------------------------------------------------------
(* Claims about error recovery *)

\* C26: the assertion of inRecoveryFor is violated by no source: wherever
\* inRecoveryFor(node) is evaluated while the parser is recovering, node is
\* an Error node, so the internal error is never raised.
C26_AssertionNeverViolated ==
  parser.threw # InternalError

\* the parse is over: parseDeclaration returned or raised
Parsed == pc \in {"returned", "threw"} /\ "log" \in DOMAIN parser

\* C27: while the parser is recovering, from the end of the discard loop of
\* one error() call until inRecovery is false again, no production consumes
\* a token and no further diagnostic is appended.
C27_QuietWhileRecovering ==
  Parsed =>
    /\ \A i \in 1..Len(parser.log.next) : parser.log.next[i] = "<null>"
    /\ \A i \in 1..Len(parser.log.error) : ~parser.log.error[i].recovering

\* C28: inRecovery changes from true to false only when the current token
\* is not null and its kind is one the closest enclosing recovery scope
\* supports (for an assignment outside recovery(): one that some enclosing
\* scope registered); never at the end of input.
C28_NormalOnlyAtSynchronisation ==
  Parsed =>
    \A i \in 1..Len(parser.log.normal) :
      /\ parser.log.normal[i].kind # "<null>"
      /\ parser.log.normal[i].kind \in parser.log.normal[i].scope

\* C29: stack discipline of the recovery set: for every call
\* recovery(supported, f) that returns, recoverySet after the call equals
\* recoverySet before it, also when supported names kinds an outer scope
\* registered and when scopes nest; during f the set is the entry set united
\* with supported; when parseDeclaration returns the set is empty.
C29_RecoverySetRestored ==
  Parsed =>
    /\ \A i \in 1..Len(parser.log.recovery) :
         /\ parser.log.recovery[i].exit = parser.log.recovery[i].entry
         /\ parser.log.recovery[i].inside = parser.log.recovery[i].entry \cup parser.log.recovery[i].supported
    /\ pc = "returned" => parser.recoverySet = {}

\* a parse that returned after a call of recovery() inside another one
\* whose kinds it names again
C29_Witness ==
  /\ Parsed /\ pc = "returned"
  /\ decl.kind = "FunctionDecl"
  /\ \E i \in 1..Len(parser.log.recovery) :
       /\ parser.log.recovery[i].entry # {}
       /\ parser.log.recovery[i].supported \cap parser.log.recovery[i].entry # {}
       /\ parser.log.recovery[i].supported \subseteq parser.log.recovery[i].entry
  /\ \E i \in 1..Len(parser.log.recovery) :
       /\ parser.log.recovery[i].entry # {}
       /\ parser.log.recovery[i].supported \cap parser.log.recovery[i].entry = {}

\* C30: each call of error() that returns has appended exactly one
\* diagnostic, leaves the parser recovering, and has discarded the longest
\* run of tokens whose kinds are not in the recovery set of the call: it
\* stops at the end of input or at a token whose kind is in the set, and no
\* discarded token has a kind in the set.
C30_ErrorDiscardsToSynchronisation ==
  Parsed =>
    \A i \in 1..Len(parser.log.error) :
      /\ parser.log.error[i].diags = 1
      /\ parser.log.error[i].inRecovery
      /\ \A j \in 1..Len(parser.log.error[i].discarded) :
           parser.log.error[i].discarded[j] \notin parser.log.error[i].set
      /\ \/ parser.log.error[i].stop = "<null>"
         \/ parser.log.error[i].stop \in parser.log.error[i].set

\* a parse with a call of error() that discarded tokens and stopped at a
\* token of the set, and a call that found such a token and discarded none
C30_Witness ==
  /\ Parsed
  /\ \E i \in 1..Len(parser.log.error) :
       /\ Len(parser.log.error[i].discarded) >= 1
       /\ parser.log.error[i].stop \in parser.log.error[i].set
  /\ \E i \in 1..Len(parser.log.error) :
       /\ Len(parser.log.error[i].discarded) = 0
       /\ parser.log.error[i].stop \in parser.log.error[i].set

\* C31: the Error node of a call of error() starts at the start of the token
\* the call was made at and ends at the end of the last token it discarded,
\* or at the end of the token it was made at when it discarded none; at the
\* end of input both are the length of the source.
C31_ErrorSpan ==
  Parsed =>
    \A i \in 1..Len(parser.log.error) :
      LET e == parser.log.error[i]
      IN /\ e.span.start = IF e.origin = NullToken THEN Len(src) ELSE e.origin.start
         /\ e.span.end = IF e.origin = NullToken THEN Len(src)
                         ELSE IF e.last = NullToken THEN e.origin.end
                         ELSE e.last.end

\* a parse with a call of error() that discarded more than one token, a call
\* that discarded none, and a call at the end of input
C31_Witness ==
  /\ Parsed
  /\ \E i \in 1..Len(parser.log.error) :
       /\ Len(parser.log.error[i].discarded) >= 2
       /\ parser.log.error[i].span.end > parser.log.error[i].origin.end
  /\ \E i \in 1..Len(parser.log.error) :
       /\ parser.log.error[i].origin # NullToken
       /\ Len(parser.log.error[i].discarded) = 0
  /\ \E i \in 1..Len(parser.log.error) : parser.log.error[i].origin = NullToken

\* the tree of a declaration with one damaged parameter, as the claim reads it
BadParamAST(ps, rt) ==
  <<"FunctionDecl", Ident("foo"),
    [i \in 1..Len(ps) |-> IF ps[i] \in BadParamForms THEN <<"Error">> ELSE ParamAST(ps[i])],
    ReturnTypeAST(rt), <<StmtAST("return 42")>>>>

BadParamCases ==
  { <<BadParamSource(ps, rt), BadParamAST(ps, rt)>> : ps \in BadParamLists, rt \in ReturnTypeForms }

\* C32: when one parameter of a function fails to parse and the tokens are
\* discarded up to the `,' or `)' after it, the parser leaves recovery there,
\* keeps one Error node at the position of that parameter and parses the other
\* parameters, the return type and the body: the result is a FunctionDecl and
\* exactly one diagnostic is recorded.
C32_ResumesAfterParameter ==
  (src \in BadParamSources /\ pc \in {"returned", "threw"}) =>
    /\ pc = "returned"
    /\ Len(parser.allDiags) = 1
    /\ Len(parser.log.normal) = 1 /\ parser.log.normal[1].kind \in {"Comma", "RParen"}
    /\ decl.kind = "FunctionDecl"
    /\ <<src, cleanAST(decl)>> \in BadParamCases

----------------------------------------------------------------------------
(* Claims about the runs of the lexer *)

\* the tokens run() makes of a run of characters
RunTokens == { i \in 1..Len(out) : out[i].kind \in {"Identifier", "Number"} }

\* the offsets of the characters c inside the token t
OffsetsOf(t, c) == { p \in t.start..(t.end - 1) : char(src, p) = c }

\* C33: a `.' stays inside a run only when every character of the run before
\* it is a digit and the character after it is a digit; so no Identifier or
\* Number token holds more than one `.', and no Identifier token holds one.
C33_DotDisambiguation ==
  \A i \in RunTokens :
    /\ \A p \in OffsetsOf(out[i], ".") :
         /\ \A q \in out[i].start..(p - 1) : isNumber(char(src, q))
         /\ isNumber(char(src, p + 1))
    /\ Cardinality(OffsetsOf(out[i], ".")) <= 1
    /\ out[i].kind = "Identifier" => OffsetsOf(out[i], ".") = {}

\* the characters a run ends at: the whitespace, the quotes, and the
\* characters that are or begin a fixed token whatever follows them.  The
\* `.' is apart: it may be a decimal point.
RunEnders == WhitespaceChars \cup {"'", "\""} \cup (SingleChars \ {"."}) \cup {"=", "!"}

\* C34: the text of every Identifier or Number token holds no whitespace, no
\* quote and no character that is a fixed token by itself, also when the run
\* holds a bare `&' or `|'.
C34_RunEndsAtSeparator ==
  \A i \in RunTokens :
    \A p \in out[i].start..(out[i].end - 1) : char(src, p) \notin RunEnders

\* C38: every token run() yields over a whole source has a span that is not
\* empty and lies inside the source: 0 <= start < end <= length of the source.
C38_TokenSpansNonEmpty ==
  \A i \in 1..Len(out) :
    /\ 0 <= out[i].start
    /\ out[i].start < out[i].end
    /\ out[i].end <= Len(src)

----------------------------------------------------------------------------
(* Claims about the body of a function *)

\* C35: `function f() {}' parses to a FunctionDecl with an empty body and
\* records no diagnostic.
C35_EmptyBody ==
  (src = Chars("function f() {}") /\ pc \in {"returned", "threw"}) =>
    /\ pc = "returned"
    /\ decl.kind = "FunctionDecl"
    /\ decl.body = <<>>
    /\ parser.allDiags = <<>>

\* the offset of the token that stands where the body should open
NoBraceOffsets == { <<NoBraceSource(rt, tl), Len(NoBraceHeader(rt))>> : rt \in ReturnTypeForms, tl \in NoBraceTails }

\* C36: when the token after the parameter list and the return type is not
\* `{', parseFunction records a diagnostic at that token: the token is not
\* taken for the opening brace.
C36_BodyOpensWithBrace ==
  (src \in NoBraceSources /\ pc \in {"returned", "threw"}) =>
    /\ parser.allDiags # <<>>
    /\ <<src, parser.allDiags[1].range.start.character>> \in NoBraceOffsets

\* the number of Error nodes in the trees of a list, and in a tree
RECURSIVE ErrorNodesIn(_), ErrorNodes(_)
ErrorNodesIn(nodes) == IF nodes = <<>> THEN 0 ELSE ErrorNodes(Head(nodes)) + ErrorNodesIn(Tail(nodes))

ErrorNodes(node) == IF isError(node) THEN 1 ELSE ErrorNodesIn(children(node))

\* C39: every diagnostic is carried by an Error node of the tree
\* parseDeclaration returns: the diagnostics recorded are as many as the
\* Error nodes of the tree, also for a missing `;', a missing `}' and a
\* missing `)' of a parenthesized expression.
C39_DiagnosticsHaveErrorNodes ==
  pc = "returned" => Len(parser.allDiags) = ErrorNodes(decl)

----------------------------------------------------------------------------
(* The fixed-token recognizer by itself: token() called with the cursor at *)
(* any offset of the source, as run() calls it at the head of its loop and *)
(* at every character of a run                                             *)

TokenExamples == { Chars("|"), Chars("||"), Chars("a|b"), Chars("a| b"), Chars("=>"), Chars("!=") }

TokenSources == LexSources \cup TokenExamples

InitToken ==
  /\ src \in TokenSources
  /\ lexer = Lexer(src, 0, Len(src))
  /\ out = <<>>
  /\ status = "off"
  /\ parser = NoParser
  /\ decl = NoDecl
  /\ diagnostics = NoDiagnostics
  /\ scanner = NoScanner
  /\ result = NoResult
  /\ pc = "off"

\* this.p = p; this.token(): the token returned (NullToken for null) and the
\* cursor after the call, or the exception of the string scanner
Token ==
  /\ result = NoResult
  /\ pc = "off" /\ status = "off" /\ scanner = NoScanner /\ diagnostics = NoDiagnostics
  /\ \E p \in 0..Len(src) :
       LET returns(r) ==
             /\ result' = [kind |-> "token", start |-> p, threw |-> r.threw, tok |-> r.tok, p |-> r.lexer.p]
             /\ lexer' = r.lexer
       IN returns(token([lexer EXCEPT !.p = p]))
  /\ UNCHANGED <<src, out, status, parser, decl, pc, diagnostics, scanner>>

NextToken == Token

SpecToken == InitToken /\ [][NextToken]_vars

\* C37: whenever token() returns null, also for a bare `&' or `|' that its
\* pair does not follow, the cursor is where it was before the call.
C37_NoMatchNoEffect ==
  (result.kind = "token" /\ result.threw = NoThrow /\ result.tok = NullToken) =>
    result.p = result.start

============================================================================
